---- MODULE Spec2Model ----
(***************************************************************************)
(* Verification model of nigsp (graph signal processing on connectivity   *)
(* graphs): spectral splitting (operations/timeseries.py), the structural *)
(* decoupling index (operations/metrics.py), sign-flip surrogates and the *)
(* significance test (operations/surrogates.py).                           *)
(*                                                                         *)
(* Conventions.  A 2-D array is a sequence of rows, a row a sequence of    *)
(* integers; Python index i is TLA+ index i+1.  A dict is a sequence of    *)
(* records [key, val] in insertion order.  None is <<>>, a value x that may *)
(* be None is <<x>>.                                                       *)
(* Norms are kept squared (sums of squares of integers) and an SDI value   *)
(* log2(norm(b)/norm(a)) is kept as the pair <<normsq(b), normsq(a)>> with *)
(* its IEEE class (finite, -inf, +inf, nan).  Probabilities are exact      *)
(* fractions [num, den].                                                   *)
(***************************************************************************)
EXTENDS Integers, Sequences, FiniteSets, TLC

VARIABLES
    pc,          \* which specification runs and what was the last operation
    eigenvec,    \* eigenvector matrix handed to the operations
    timeseries,  \* timeseries, nodes x timepoints
    energy,      \* SCGraph.energy (None until compute_graph_energy)
    index,       \* SCGraph.index / result of median_cutoff_frequency_idx
    split_arg,   \* the index argument of the last SCGraph.split_graph call
    freq_idx,    \* the freq_idx argument of the last graph_filter call
    keys,        \* the keys argument of the last graph_filter / sdi call
    evec_split,  \* dict band -> split eigenvectors
    ts_split,    \* dict band -> split timeseries
    sdi_keys,    \* the keys argument of the last sdi call
    sdi,         \* result of metrics.sdi
    surr,        \* test_significance: the surr argument [ndim, arr]
    data,        \* test_significance: the data argument, or None
    method,      \* test_significance: the method argument
    p,           \* test_significance: the p argument, a fraction
    p_bernoulli, \* test_significance: the p_bernoulli argument, or None
    real_pos,    \* where argsort put the last slice, per observation
    hits,        \* stat_mask after the frequentist step
    thr,         \* the group threshold of the Bernoulli step, or None
    stat_mask,   \* the mask returned by test_significance
    n_surr,      \* random_sign: the n_surr argument
    seed,        \* random_sign: the seed argument, or None
    stack,       \* random_sign: the stack argument
    rng,         \* random_sign: the generator made from the seed
    rand_evec,   \* the array returned by random_sign
    sc_fn,       \* the surrogate function that was called last
    lapl_mtx,    \* the Laplacian (SCGraph.lapl_mtx, sc_uninformed(lapl_mtx))
    solver,      \* what np.linalg.eig answers in this run
    history,     \* the calls made so far with their results
    self,        \* the SCGraph object, or None before it is constructed
    mtx,         \* the matrix given to the SCGraph constructor
    gsdi,        \* result of metrics.gsdi
    err          \* exception raised by the last operation, or NoErr

graphVars == <<eigenvec, timeseries, energy, index, split_arg, freq_idx, keys,
               evec_split, ts_split, sdi_keys, sdi>>

sigVars == <<surr, data, method, p, p_bernoulli, real_pos, hits, thr,
             stat_mask>>

signVars == <<n_surr, seed, stack, rng, rand_evec>>

extraVars == <<sc_fn, lapl_mtx, solver, history, self, mtx, gsdi>>

vars == <<pc, graphVars, sigVars, signVars, extraVars, err>>

(***************************************************************************)
(* Bounds of the model                                                     *)
(***************************************************************************)
MinN == 3
MaxN == 4
MinT == 2
MaxT == 2
MaxCut == 4
MaxModes == 4
MaxEnergy == 3
MinSurr == 3
MaxSurr == 4
MaxRegions == 2
MaxSubj == 2
MaxSignN == 3
MaxNSurr == 2
MaxSeed == 7

\* None is the empty sequence, a present value x is <<x>>
None == <<>>
Some(x) == <<x>>
NoErr == [exc |-> "none", at |-> "none"]

(***************************************************************************)
(* Array helpers (numpy semantics on sequences of rows)                    *)
(***************************************************************************)
NRows(m) == Len(m)

NCols(m) == IF Len(m) = 0 THEN 0 ELSE Len(m[1])

RECURSIVE SumSeq(_)
SumSeq(s) == IF s = <<>> THEN 0 ELSE Head(s) + SumSeq(Tail(s))

Transpose(m) ==
    [c \in 1..NCols(m) |-> [r \in 1..NRows(m) |-> m[r][c]]]

\* a @ b, defined when NCols(a) = NRows(b)
MatMul(a, b) ==
    [r \in 1..NRows(a) |->
        [c \in 1..NCols(b) |->
            SumSeq([k \in 1..NCols(a) |-> a[r][k] * b[k][c]])]]

MatAdd(a, b) ==
    [r \in 1..NRows(a) |-> [c \in 1..NCols(a) |-> a[r][c] + b[r][c]]]

ZerosLike(m) ==
    [r \in 1..NRows(m) |-> [c \in 1..NCols(m) |-> 0]]

\* Python slice bound: None, a negative index counted from the end, clamped
SliceStart(len, lo) ==
    IF lo = None THEN 0
    ELSE IF lo[1] < 0 THEN (IF len + lo[1] < 0 THEN 0 ELSE len + lo[1])
    ELSE IF lo[1] > len THEN len ELSE lo[1]

SliceStop(len, hi) ==
    IF hi = None THEN len
    ELSE IF hi[1] < 0 THEN (IF len + hi[1] < 0 THEN 0 ELSE len + hi[1])
    ELSE IF hi[1] > len THEN len ELSE hi[1]

\* m[:, lo:hi]
SliceCols(m, lo, hi) ==
    [r \in 1..NRows(m) |->
        SubSeq(m[r], SliceStart(NCols(m), lo) + 1, SliceStop(NCols(m), hi))]

\* np.append(a, b, axis=-1)
AppendCols(a, b) == [r \in 1..NRows(a) |-> a[r] \o b[r]]

(***************************************************************************)
(* utils.py                                                                *)
(***************************************************************************)
\* an int argument f and a list argument s of graph_filter
IntArg(f) == [kind |-> "int", n |-> f, l |-> <<>>]
ListArg(s) == [kind |-> "list", n |-> 0, l |-> s]

\* change_var_type(var, list): a list is kept, anything else is wrapped
change_var_type_list(var) ==
    IF var.kind = "list" THEN var.l ELSE <<var.n>>

\* pairwise(iterable): the couples of adjacent elements
pairwise(s) == [n \in 1..(Len(s) - 1) |-> <<s[n], s[n + 1]>>]

(***************************************************************************)
(* operations/timeseries.py                                                *)
(***************************************************************************)
\* eigenvec.conj().T @ timeseries is defined when the shapes agree
GftDefined(ts, evec) == NRows(evec) = NRows(ts)

\* graph_fourier_transform(timeseries, eigenvec) on real 2-D input
graph_fourier_transform(ts, evec) == MatMul(Transpose(evec), ts)

\* graph_fourier_transform(..., energy=True): the squared projection
graph_fourier_energy(ts, evec) ==
    LET proj == graph_fourier_transform(ts, evec)
    IN  [r \in 1..NRows(proj) |-> [c \in 1..NCols(proj) |-> proj[r][c] * proj[r][c]]]

\* f"key-{i+1:03d}" for the (0-based) position i of a missing key
GenKey(i) == <<"key-001", "key-002", "key-003", "key-004", "key-005",
               "key-006", "key-007", "key-008", "key-009">>[i + 1]

RECURSIVE ExtendKeys(_, _)
ExtendKeys(ks, n) ==
    IF Len(ks) >= n THEN ks ELSE ExtendKeys(Append(ks, GenKey(Len(ks))), n)

\* SplitBand with the leading block copied instead of zeroed
SplitBandNoPad(evec, i, j) ==
    LET k == IF j # None THEN j ELSE Some(NCols(evec))
    IN  AppendCols(
            AppendCols(SliceCols(evec, None, i), SliceCols(evec, i, j)),
            ZerosLike(SliceCols(evec, k, None)))

\* one band of graph_filter: zeros | eigenvec[:, i:j] | zeros
SplitBand(evec, i, j) ==
    LET k == IF j # None THEN j ELSE Some(NCols(evec))
    IN  AppendCols(
            AppendCols(ZerosLike(SliceCols(evec, None, i)),
                       SliceCols(evec, i, j)),
            ZerosLike(SliceCols(evec, k, None)))

\* dict.fromkeys(keys) filled in key order
MkDict(ks, vals) == [n \in 1..Len(ks) |-> [key |-> ks[n], val |-> vals[n]]]

Raise(exc, at) ==
    [err |-> [exc |-> exc, at |-> at], evec_split |-> None, ts_split |-> None]

graph_filter(ts, evec, fi, ks) ==
    LET fl == change_var_type_list(fi)
    IN
    IF \E n \in 1..Len(fl) : fl[n] = 0 \/ fl[n] >= NRows(evec) - 1
    THEN Raise("IndexError", "index")
    ELSE IF Len(ks) < Len(fl) + 1 /\ ~(Len(fl) < Len(ks))
    THEN \* the warning formats keys[len(freq_idx)], which does not exist
         Raise("IndexError", "keys")
    ELSE
    LET ks2  == IF Len(ks) > Len(fl) + 1 THEN SubSeq(ks, 1, Len(fl) + 1)
                ELSE ExtendKeys(ks, Len(fl) + 1)
        full == <<Some(0)>> \o [n \in 1..Len(fl) |-> Some(fl[n])] \o <<None>>
        prs  == pairwise(full)
        bands == [n \in 1..Len(prs) |-> SplitBand(evec, prs[n][1], prs[n][2])]
    IN
    IF ~GftDefined(ts, evec)
    THEN Raise("ValueError", "matmul")
    ELSE
    LET fourier_coeff == graph_fourier_transform(ts, evec)
    IN
    IF \E n \in 1..Len(bands) : ~GftDefined(fourier_coeff, Transpose(bands[n]))
    THEN Raise("ValueError", "matmul")
    ELSE [err |-> NoErr,
          evec_split |-> Some(MkDict(ks2, bands)),
          ts_split |-> Some(MkDict(ks2,
              [n \in 1..Len(bands) |->
                  graph_fourier_transform(fourier_coeff, Transpose(bands[n]))]))]

\* 2 * np.trapz(e) for a 1-D e (unit spacing); 0 for fewer than 2 samples
Trapz2(e) == SumSeq([i \in 1..(Len(e) - 1) |-> e[i] + e[i + 1]])

\* energy.mean(axis=-1) of a 2-D energy, kept as the row sums, that is the
\* mean times the (positive) number of columns: the test of the loop below
\* compares two areas of the same vector and is unchanged by that factor
MeanLastAxis(a) == [r \in 1..NRows(a) |-> SumSeq(a[r])]

\* ReachesHalf on energy[:freq_idx + 1], one mode further
ReachesHalfIncl(e, k) == 2 * Trapz2(SubSeq(e, 1, k + 1)) >= Trapz2(e)

\* np.trapz(energy[:freq_idx]) >= half_tot_auc
ReachesHalf(e, k) == 2 * Trapz2(SubSeq(e, 1, k)) >= Trapz2(e)

\* for freq_idx in range(1, energy.size): if ...: break
RECURSIVE CutoffLoop(_, _)
CutoffLoop(e, k) ==
    IF ReachesHalf(e, k) THEN k
    ELSE IF k + 1 < Len(e) THEN CutoffLoop(e, k + 1)
    ELSE k

\* median_cutoff_frequency_idx(energy), energy = [ndim, arr]
median_cutoff_frequency_idx(en) ==
    IF en.ndim > 2
    THEN [err |-> [exc |-> "NotImplementedError", at |-> "ndim"], idx |-> None]
    ELSE LET e == IF en.ndim = 2 THEN MeanLastAxis(en.arr) ELSE en.arr
         IN  IF Len(e) < 2
             THEN \* the loop body never runs and freq_idx is unbound
                  [err |-> [exc |-> "UnboundLocalError", at |-> "freq_idx"],
                   idx |-> None]
             ELSE [err |-> NoErr, idx |-> Some(CutoffLoop(e, 1))]

(***************************************************************************)
(* operations/metrics.py                                                   *)
(***************************************************************************)
\* str.lower() on the band names of the model
Lower(s) ==
    CASE s = "LOW" -> "low"
      [] s = "Low" -> "low"
      [] s = "HIGH" -> "high"
      [] s = "High" -> "high"
      [] OTHER -> s

DictKeys(d) == [n \in 1..Len(d) |-> d[n].key]

HasKey(d, k) == \E n \in 1..Len(d) : d[n].key = k

Lookup(d, k) == d[CHOOSE n \in 1..Len(d) : d[n].key = k].val

InSeq(x, s) == \E n \in 1..Len(s) : s[n] = x

\* list.index(x): position of the first occurrence (1-based here)
ListIndex(s, x) == CHOOSE n \in 1..Len(s) :
                       s[n] = x /\ \A m \in 1..(n - 1) : s[m] # x

\* np.linalg.norm(a, axis=1) squared: one sum of squares per row
NormSqAxis1(a) == [r \in 1..NRows(a) |-> SumSeq([c \in 1..NCols(a) |-> a[r][c] * a[r][c]])]

\* IEEE class of log2(sqrt(num) / sqrt(den)) for num, den >= 0
RatioClass(num, den) ==
    IF den = 0 THEN (IF num = 0 THEN "nan" ELSE "+inf")
    ELSE IF num = 0 THEN "-inf" ELSE "finite"

LogRatio(num, den) == [num |-> num, den |-> den, class |-> RatioClass(num, den)]

SdiRaise(at) == [err |-> [exc |-> "ValueError", at |-> at], sdi |-> None]

\* sdi without the reordering of the keys as ['low', 'high']
sdi_fn_unordered(tss, karg) ==
    LET ks == IF karg = None THEN DictKeys(tss) ELSE karg[1]
    IN
    IF karg # None /\ \E n \in 1..Len(ks) : ~HasKey(tss, ks[n])
    THEN SdiRaise("keys")
    ELSE IF Len(ks) # 2
    THEN SdiRaise("two")
    ELSE
    LET n0 == NormSqAxis1(Lookup(tss, ks[1]))
        n1 == NormSqAxis1(Lookup(tss, ks[2]))
    IN  [err |-> NoErr,
         sdi |-> Some([r \in 1..Len(n0) |-> LogRatio(n1[r], n0[r])])]

\* sdi(ts_split, mean, keys) on 2-D split timeseries (mean has no effect)
sdi_fn(tss, karg) ==
    LET ks == IF karg = None THEN DictKeys(tss) ELSE karg[1]
    IN
    IF karg # None /\ \E n \in 1..Len(ks) : ~HasKey(tss, ks[n])
    THEN SdiRaise("keys")
    ELSE IF Len(ks) # 2
    THEN SdiRaise("two")
    ELSE
    LET check_keys == [n \in 1..Len(ks) |-> Lower(ks[n])]
        canon == \A n \in 1..Len(ks) : check_keys[n] \in {"low", "high"}
    IN
    IF canon /\ (~InSeq("low", check_keys) \/ ~InSeq("high", check_keys))
    THEN SdiRaise("index")
    ELSE
    LET ks2 == IF canon
               THEN <<ks[ListIndex(check_keys, "low")],
                      ks[ListIndex(check_keys, "high")]>>
               ELSE ks
        n0 == NormSqAxis1(Lookup(tss, ks2[1]))
        n1 == NormSqAxis1(Lookup(tss, ks2[2]))
    IN  [err |-> NoErr,
         sdi |-> Some([r \in 1..Len(n0) |-> LogRatio(n1[r], n0[r])])]

(***************************************************************************)
(* operations/metrics.py: gsdi.  The names of the bands are sequences of   *)
(* characters, so that `k in j` is the substring test of Python.           *)
(***************************************************************************)
\* k in j for two strings, k not empty
IsIn(k, j) ==
    \E a \in 1..(Len(j) - Len(k) + 1) : SubSeq(j, a, a + Len(k) - 1) = k

RECURSIVE CombIdx(_, _, _)
\* itertools.combinations(range(lo, hi + 1), n), in its order
CombIdx(lo, hi, n) ==
    IF n = 0 THEN <<<<>>>>
    ELSE IF lo > hi THEN <<>>
    ELSE LET with == CombIdx(lo + 1, hi, n - 1)
         IN  [a \in 1..Len(with) |-> <<lo>> \o with[a]]
                 \o CombIdx(lo + 1, hi, n)

RECURSIVE JoinAnd(_)
\* "_and_".join(names)
JoinAnd(names) ==
    IF Len(names) = 1 THEN names[1]
    ELSE names[1] \o <<"_", "a", "n", "d", "_">> \o JoinAnd(Tail(names))

\* str(c).replace("'", "").replace(", ", "_and_") for a tuple c of names
CombKey(names) == <<"(">> \o JoinAnd(names) \o <<")">>

\* f"{k}_over_{j}"
OverKey(k, j) == k \o <<"_", "o", "v", "e", "r", "_">> \o j

\* d[k] = v
DictSet(d, k, v) ==
    IF HasKey(d, k)
    THEN [n \in 1..Len(d) |-> IF d[n].key = k THEN [key |-> k, val |-> v]
                              ELSE d[n]]
    ELSE Append(d, [key |-> k, val |-> v])

RECURSIVE SumArrays(_, _, _)
\* np.zeros_like(first) + tss[ks[1]] + tss[ks[2]] + ..
SumArrays(tss, ks, first) ==
    IF Len(ks) = 0 THEN ZerosLike(first)
    ELSE MatAdd(SumArrays(tss, SubSeq(ks, 1, Len(ks) - 1), first),
                Lookup(tss, ks[Len(ks)]))

RECURSIVE AddCombinations(_, _, _)
\* ts_split after the combinations in cs were added to it
AddCombinations(tss, ks, cs) ==
    IF Len(cs) = 0 THEN tss
    ELSE LET done == AddCombinations(tss, ks, SubSeq(cs, 1, Len(cs) - 1))
             c == [a \in 1..Len(cs[Len(cs)]) |-> ks[cs[Len(cs)][a]]]
         IN  DictSet(done, CombKey(c),
                     SumArrays(done, c, Lookup(done, ks[1])))

RECURSIVE AllCombinations(_, _)
\* the combinations of 2, 3, .., upto of the len positions, in this order
AllCombinations(len, upto) ==
    IF upto < 2 THEN <<>>
    ELSE AllCombinations(len, upto - 1) \o CombIdx(1, len, upto)

\* the test that leaves j out of the ratios of band k
Excluded(k, j) ==
    \/ IsIn(k, j)
    \/ IsIn(<<"(">> \o k \o <<"_">>, j)
    \/ IsIn(<<"_">> \o k \o <<")">>, j)
    \/ IsIn(<<"_">> \o k \o <<"_">>, j)

RECURSIVE GsdiEntries(_, _, _, _)
\* the dict after the first n of the pairs (k, j), k the slower index
GsdiEntries(tss, ks, all, n) ==
    IF n = 0 THEN <<>>
    ELSE LET prev == GsdiEntries(tss, ks, all, n - 1)
             k == ks[((n - 1) \div Len(all)) + 1]
             j == all[((n - 1) % Len(all)) + 1]
             nk == NormSqAxis1(Lookup(tss, k))
             nj == NormSqAxis1(Lookup(tss, j))
         IN  IF Excluded(k, j) THEN prev
             ELSE DictSet(prev, OverKey(k, j),
                          [r \in 1..Len(nk) |-> LogRatio(nk[r], nj[r])])

\* gsdi(ts_split, mean, keys=None) on 2-D split timeseries: the returned
\* dict and ts_split as the call leaves it
gsdi_fn(tss) ==
    LET ks == DictKeys(tss)
        grown == IF Len(ks) > 2
                 THEN AddCombinations(tss, ks, AllCombinations(Len(ks), Len(ks) - 1))
                 ELSE tss
        all == DictKeys(grown)
    IN  [err |-> NoErr,
         gsdi |-> Some(GsdiEntries(grown, ks, all, Len(ks) * Len(all))),
         ts_split |-> Some(grown)]

(***************************************************************************)
(* operations/surrogates.py: test_significance                             *)
(***************************************************************************)
\* a probability num/den, den > 0
Frac(a, b) == [num |-> a, den |-> b]

FracLT(x, y) == x.num * y.den < y.num * x.den

\* floor(n * x)
FloorMul(n, x) == (n * x.num) \div x.den

\* 1 - np.cumsum(pmf) for Binomial(100, q), x = 0..99, as computed in float32
\* by test_significance, in millionths rounded down; entry x + 1 is P(X > x)
BinomTailPpm(q) ==
    CASE q = Frac(1, 3) -> <<
           1000000, 1000000, 1000000, 1000000, 1000000, 1000000, 1000000, 1000000, 1000000, 1000000,
           999999, 999999, 999999, 999997, 999990, 999971, 999920, 999796, 999508, 998887,
           997630, 995235, 990935, 983644, 971949, 954171, 928531, 893393, 847590, 790730,
           723446, 647480, 565579, 481196, 398054, 319664, 248894, 187688, 136952, 96623,
           65872, 43371, 27567, 16908, 10004, 5709, 3141, 1665, 851, 419,
           198, 90, 39, 16, 6, 2, 0, 0, 0, 0,
           0, 0, 0, 0, 0, 0, 0, 0, 0, 0,
           0, 0, 0, 0, 0, 0, 0, 0, 0, 0,
           0, 0, 0, 0, 0, 0, 0, 0, 0, 0,
           0, 0, 0, 0, 0, 0, 0, 0, 0, 0 >>
      [] q = Frac(1, 4) -> <<
           1000000, 1000000, 1000000, 1000000, 1000000, 999999, 999999, 999997, 999987, 999956,
           999862, 999606, 998972, 997542, 994579, 988916, 978889, 962373, 936988, 900469,
           851168, 788564, 713629, 628920, 538328, 446529, 358260, 277619, 207538, 149541,
           103787, 69348, 44596, 27594, 16426, 9407, 5182, 2746, 1400, 686,
           324, 147, 64, 27, 10, 4, 1, 0, 0, 0,
           0, 0, 0, 0, 0, 0, 0, 0, 0, 0,
           0, 0, 0, 0, 0, 0, 0, 0, 0, 0,
           0, 0, 0, 0, 0, 0, 0, 0, 0, 0,
           0, 0, 0, 0, 0, 0, 0, 0, 0, 0,
           0, 0, 0, 0, 0, 0, 0, 0, 0, 0 >>
      [] q = Frac(1, 5) -> <<
           1000000, 1000000, 999999, 999999, 999996, 999981, 999922, 999723, 999144, 997666,
           994303, 987425, 974671, 953087, 919556, 871494, 807662, 728811, 637912, 539838,
           440538, 345966, 261067, 189087, 131353, 87475, 55832, 34151, 20020, 11248,
           6059, 3129, 1550, 736, 335, 147, 61, 24, 9, 3,
           1, 0, 0, 0, 0, 0, 0, 0, 0, 0,
           0, 0, 0, 0, 0, 0, 0, 0, 0, 0,
           0, 0, 0, 0, 0, 0, 0, 0, 0, 0,
           0, 0, 0, 0, 0, 0, 0, 0, 0, 0,
           0, 0, 0, 0, 0, 0, 0, 0, 0, 0,
           0, 0, 0, 0, 0, 0, 0, 0, 0, 0 >>
      [] q = Frac(1, 6) -> <<
           1000000, 999999, 999997, 999981, 999906, 999615, 998693, 996219, 990467, 978707,
           957304, 922280, 870329, 799994, 712579, 612342, 505841, 400592, 303530, 219749,
           151887, 100183, 63050, 37864, 21703, 11877, 6208, 3101, 1481, 676,
           295, 123, 49, 19, 7, 2, 0, 0, 0, 0,
           0, 0, 0, 0, 0, 0, 0, 0, 0, 0,
           0, 0, 0, 0, 0, 0, 0, 0, 0, 0,
           0, 0, 0, 0, 0, 0, 0, 0, 0, 0,
           0, 0, 0, 0, 0, 0, 0, 0, 0, 0,
           0, 0, 0, 0, 0, 0, 0, 0, 0, 0,
           0, 0, 0, 0, 0, 0, 0, 0, 0, 0 >>
      [] q = Frac(1, 7) -> <<
           999999, 999996, 999968, 999817, 999206, 997250, 992089, 980539, 958161, 920035,
           862210, 783358, 685889, 575923, 462030, 353198, 256837, 177481, 116495, 72627,
           43017, 24216, 12964, 6605, 3204, 1481, 653, 274, 110, 42,
           15, 5, 1, 0, 0, 0, 0, 0, 0, 0,
           0, 0, 0, 0, 0, 0, 0, 0, 0, 0,
           0, 0, 0, 0, 0, 0, 0, 0, 0, 0,
           0, 0, 0, 0, 0, 0, 0, 0, 0, 0,
           0, 0, 0, 0, 0, 0, 0, 0, 0, 0,
           0, 0, 0, 0, 0, 0, 0, 0, 0, 0,
           0, 0, 0, 0, 0, 0, 0, 0, 0, 0 >>
      [] q = Frac(1, 8) -> <<
           999998, 999975, 999815, 999066, 996473, 989360, 973272, 942409, 891153, 816304,
           719000, 605269, 484767, 368238, 264789, 180059, 115756, 70365, 40464, 22030,
           11364, 5559, 2582, 1139, 478, 191, 72, 26, 9, 3,
           1, 0, 0, 0, 0, 0, 0, 0, 0, 0,
           0, 0, 0, 0, 0, 0, 0, 0, 0, 0,
           0, 0, 0, 0, 0, 0, 0, 0, 0, 0,
           0, 0, 0, 0, 0, 0, 0, 0, 0, 0,
           0, 0, 0, 0, 0, 0, 0, 0, 0, 0,
           0, 0, 0, 0, 0, 0, 0, 0, 0, 0,
           0, 0, 0, 0, 0, 0, 0, 0, 0, 0 >>
      [] q = Frac(1, 10) -> <<
           999973, 999678, 998055, 992163, 976288, 942423, 882844, 793949, 679126, 548709,
           416844, 296966, 198178, 123876, 72573, 39890, 20598, 10007, 4580, 1978,
           807, 311, 114, 39, 13, 4, 1, 0, 0, 0,
           0, 0, 0, 0, 0, 0, 0, 0, 0, 0,
           0, 0, 0, 0, 0, 0, 0, 0, 0, 0,
           0, 0, 0, 0, 0, 0, 0, 0, 0, 0,
           0, 0, 0, 0, 0, 0, 0, 0, 0, 0,
           0, 0, 0, 0, 0, 0, 0, 0, 0, 0,
           0, 0, 0, 0, 0, 0, 0, 0, 0, 0,
           0, 0, 0, 0, 0, 0, 0, 0, 0, 0 >>
      [] q = Frac(3, 10) -> <<
           1000000, 1000000, 1000000, 1000000, 1000000, 1000000, 1000000, 1000000, 999999, 999999,
           999998, 999994, 999981, 999943, 999842, 999594, 999031, 997837, 995477, 991112,
           983537, 971168, 952134, 924469, 886429, 836869, 775600, 703633, 623221, 537660,
           450876, 366891, 289281, 220742, 162858, 116078, 79879, 53045, 33978, 20988,
           12498, 7173, 3967, 2114, 1085, 537, 255, 117, 51, 22,
           9, 3, 1, 0, 0, 0, 0, 0, 0, 0,
           0, 0, 0, 0, 0, 0, 0, 0, 0, 0,
           0, 0, 0, 0, 0, 0, 0, 0, 0, 0,
           0, 0, 0, 0, 0, 0, 0, 0, 0, 0,
           0, 0, 0, 0, 0, 0, 0, 0, 0, 0 >>
      [] q = Frac(2, 5) -> <<
           1000000, 1000000, 1000000, 1000000, 1000000, 1000000, 1000000, 1000000, 1000000, 1000000,
           1000000, 1000000, 1000000, 1000000, 1000000, 999999, 999999, 999999, 999998, 999994,
           999983, 999956, 999892, 999748, 999438, 998811, 997604, 995399, 991567, 985224,
           975217, 960152, 938496, 908746, 869663, 820530, 761389, 693190, 617812, 537924,
           456705, 377467, 303260, 236531, 178901, 131090, 92980, 63789, 42301, 27099,
           16761, 10005, 5760, 3197, 1710, 881, 437, 209, 96, 42,
           18, 7, 2, 1, 0, 0, 0, 0, 0, 0,
           0, 0, 0, 0, 0, 0, 0, 0, 0, 0,
           0, 0, 0, 0, 0, 0, 0, 0, 0, 0,
           0, 0, 0, 0, 0, 0, 0, 0, 0, 0 >>
      [] q = Frac(0, 1) -> <<
           0, 0, 0, 0, 0, 0, 0, 0, 0, 0,
           0, 0, 0, 0, 0, 0, 0, 0, 0, 0,
           0, 0, 0, 0, 0, 0, 0, 0, 0, 0,
           0, 0, 0, 0, 0, 0, 0, 0, 0, 0,
           0, 0, 0, 0, 0, 0, 0, 0, 0, 0,
           0, 0, 0, 0, 0, 0, 0, 0, 0, 0,
           0, 0, 0, 0, 0, 0, 0, 0, 0, 0,
           0, 0, 0, 0, 0, 0, 0, 0, 0, 0,
           0, 0, 0, 0, 0, 0, 0, 0, 0, 0,
           0, 0, 0, 0, 0, 0, 0, 0, 0, 0 >>
      [] q = Frac(1, 1) -> <<
           1000000, 1000000, 1000000, 1000000, 1000000, 1000000, 1000000, 1000000, 1000000, 1000000,
           1000000, 1000000, 1000000, 1000000, 1000000, 1000000, 1000000, 1000000, 1000000, 1000000,
           1000000, 1000000, 1000000, 1000000, 1000000, 1000000, 1000000, 1000000, 1000000, 1000000,
           1000000, 1000000, 1000000, 1000000, 1000000, 1000000, 1000000, 1000000, 1000000, 1000000,
           1000000, 1000000, 1000000, 1000000, 1000000, 1000000, 1000000, 1000000, 1000000, 1000000,
           1000000, 1000000, 1000000, 1000000, 1000000, 1000000, 1000000, 1000000, 1000000, 1000000,
           1000000, 1000000, 1000000, 1000000, 1000000, 1000000, 1000000, 1000000, 1000000, 1000000,
           1000000, 1000000, 1000000, 1000000, 1000000, 1000000, 1000000, 1000000, 1000000, 1000000,
           1000000, 1000000, 1000000, 1000000, 1000000, 1000000, 1000000, 1000000, 1000000, 1000000,
           1000000, 1000000, 1000000, 1000000, 1000000, 1000000, 1000000, 1000000, 1000000, 1000000 >>

\* a.shape for an array [ndim, arr] of 0 to 3 dimensions
ShapeOf(a) ==
    IF a.ndim = 0 THEN <<>>
    ELSE IF a.ndim = 1 THEN <<Len(a.arr)>>
    ELSE IF a.ndim = 2 THEN <<Len(a.arr), Len(a.arr[1])>>
    ELSE <<Len(a.arr), Len(a.arr[1]), Len(a.arr[1][1])>>

\* a[..., -1]
LastSlice(a) ==
    IF a.ndim = 1 THEN a.arr[Len(a.arr)]
    ELSE IF a.ndim = 2 THEN [r \in 1..Len(a.arr) |-> a.arr[r][Len(a.arr[r])]]
    ELSE [r \in 1..Len(a.arr) |->
             [s \in 1..Len(a.arr[r]) |-> a.arr[r][s][Len(a.arr[r][s])]]]

\* np.append(a, d[..., np.newaxis], axis=-1)
AppendLast(a, d) ==
    [ndim |-> a.ndim,
     arr |-> IF a.ndim = 1 THEN Append(a.arr, d)
             ELSE IF a.ndim = 2
             THEN [r \in 1..Len(a.arr) |-> Append(a.arr[r], d[r])]
             ELSE [r \in 1..Len(a.arr) |->
                      [s \in 1..Len(a.arr[r]) |-> Append(a.arr[r][s], d[r][s])]]]

\* the positions np.argsort may give to the last element of one vector:
\* after the smaller values, anywhere among the values equal to it
PosRange(v) ==
    LET real == v[Len(v)]
        less == Cardinality({c \in 1..(Len(v) - 1) : v[c] < real})
        same == Cardinality({c \in 1..(Len(v) - 1) : v[c] = real})
    IN  less..(less + same)

\* the sequences that take their i-th element in the i-th set
RECURSIVE Products(_)
Products(sets) ==
    IF sets = <<>> THEN {<<>>}
    ELSE {<<x>> \o t : x \in Head(sets), t \in Products(Tail(sets))}

PosRows(m) == Products([r \in 1..Len(m) |-> PosRange(m[r])])

\* every outcome of np.argsort(surr, axis=-1) == real_idx, as the position
\* of the True entry per observation
ArgsortPositions(a) ==
    IF a.ndim = 1 THEN PosRange(a.arr)
    ELSE IF a.ndim = 2 THEN PosRows(a.arr)
    ELSE Products([r \in 1..Len(a.arr) |-> PosRows(a.arr[r])])

\* reord_surr[..., lo:hi].any(axis=-1) for the row that is True at pos only
AnyInSlice(len, pos, lo, hi) ==
    \E c \in SliceStart(len, lo)..(SliceStop(len, hi) - 1) : c = pos

\* the lower tail alone
TailHitLowOnly(len, pos, q) ==
    AnyInSlice(len, pos, None, Some(FloorMul(len - 1, q) + 1))

\* stat_mask of one observation: the real data is in the first or in the
\* last floor(real_idx * q) + 1 places
TailHit(len, pos, q) ==
    LET k == FloorMul(len - 1, q)
    IN  \/ AnyInSlice(len, pos, None, Some(k + 1))
        \/ AnyInSlice(len, pos, Some(0 - k - 1), None)

\* the frequentist step on the whole array of positions
TailHits(a, pos, q) ==
    LET len == ShapeOf(a)[a.ndim]
    IN  IF a.ndim = 1 THEN TailHit(len, pos, q)
        ELSE IF a.ndim = 2 THEN [r \in 1..Len(pos) |-> TailHit(len, pos[r], q)]
        ELSE [r \in 1..Len(pos) |->
                 [s \in 1..Len(pos[r]) |-> TailHit(len, pos[r][s], q)]]

\* p of the frequentist method: halved, then 1/len when that is larger
FrequentistP(q, len) ==
    LET h == Frac(q.num, 2 * q.den)
    IN  IF FracLT(h, Frac(1, len)) THEN Frac(1, len) ELSE h

\* p and p_bernoulli of the Bernoulli method
BernoulliP(q, qb, len) ==
    LET q1 == IF qb = None THEN Frac(1, 10) ELSE q
    IN  IF FracLT(q1, Frac(1, len)) THEN Frac(1, len) ELSE q1

BernoulliPb(q, qb, nsubj) ==
    LET b1 == IF qb = None THEN q ELSE qb[1]
    IN  IF FracLT(b1, Frac(1, nsubj)) THEN Frac(1, nsubj) ELSE b1

\* x[y < alpha]: the x in 0..99 whose tail is below alpha
BelowAlpha(q, alpha) ==
    LET y == BinomTailPpm(q)
    IN  {x \in 0..99 : y[x + 1] * alpha.den < alpha.num * 1000000}

Min(S) == CHOOSE x \in S : \A y \in S : x <= y

\* thr = floor(surr.shape[1] / 100 * x[y < p_bernoulli / surr.shape[0]][0]) + 1
GroupThr(q, qb, nreg, nsubj) ==
    (nsubj * Min(BelowAlpha(q, Frac(qb.num, qb.den * nreg)))) \div 100 + 1

\* a count equal to the threshold flags the region too
GroupMaskAtLeast(h, t) ==
    [r \in 1..Len(h) |->
        [s \in 1..Len(h[r]) |->
            Cardinality({u \in 1..Len(h[r]) : h[r][u]}) >= t]]

\* stat_mask.sum(axis=1) > thr, repeated for every subject
GroupMask(h, t) ==
    [r \in 1..Len(h) |->
        [s \in 1..Len(h[r]) |->
            Cardinality({u \in 1..Len(h[r]) : h[r][u]}) > t]]

SigRaise(exc, at) ==
    [err |-> [exc |-> exc, at |-> at], real_pos |-> None, hits |-> None,
     thr |-> None, stat_mask |-> None]

\* data has the shape of an observation, or fewer axes: 1-D data for a 3-D
\* ensemble
FullData(su, da) == da[1].ndim = su.ndim - 1

\* surr[..., -1] == data can be broadcast: 1-D data along the subjects of a
\* 3-D ensemble when the lengths agree or one of them is 1
Broadcastable(su, da) ==
    \/ da = None
    \/ FullData(su, da)
    \/ LET nsubj == ShapeOf(su)[2]
           n == Len(da[1].arr)
       IN  nsubj = n \/ nsubj = 1 \/ n = 1

\* (surr[..., -1] == data).all()
LastSliceIsData(su, da) ==
    IF FullData(su, da) THEN LastSlice(su) = da[1].arr
    ELSE LET ls == LastSlice(su)
             nsubj == ShapeOf(su)[2]
             n == Len(da[1].arr)
         IN  \A r \in 1..Len(ls), s \in 1..(IF nsubj > n THEN nsubj ELSE n) :
                 ls[r][IF nsubj = 1 THEN 1 ELSE s]
                     = da[1].arr[IF n = 1 THEN 1 ELSE s]

\* data is appended unless it is the last slice already
WithData(su, da) ==
    IF da = None THEN su
    ELSE IF LastSliceIsData(su, da) THEN su
    ELSE AppendLast(su, da[1].arr)

\* surr.shape[: data.ndim] == data.shape
DataShapeOk(su, da) ==
    da = None \/ SubSeq(ShapeOf(su), 1, da[1].ndim) = ShapeOf(da[1])

\* the exception raised before the order of the surrogates is looked at;
\* np.append needs arrays of the same number of dimensions
SigEarlyError(su, da, q) ==
    IF ~DataShapeOk(su, da) THEN [exc |-> "ValueError", at |-> "data shape"]
    ELSE IF da # None /\ ~FullData(su, da) /\ ~LastSliceIsData(su, da)
    THEN [exc |-> "ValueError", at |-> "np.append"]
    ELSE IF q.num < 0 \/ q.num > q.den THEN [exc |-> "ValueError", at |-> "p"]
    ELSE NoErr

\* surr[..., -1] == data on shapes that cannot be broadcast: numpy raises
\* ValueError, or (older releases) answers the scalar False, which has no
\* .all()
ComparisonErrors ==
    {[exc |-> "ValueError", at |-> "=="],
     [exc |-> "AttributeError", at |-> "=="]}

\* test_significance(surr, data, method, p, p_bernoulli), pos being the
\* outcome of the argsort of the (completed) surrogate array
test_significance(su, da, me, q, qb, pos) ==
    IF SigEarlyError(su, da, q) # NoErr
    THEN SigRaise(SigEarlyError(su, da, q).exc, SigEarlyError(su, da, q).at)
    ELSE
    LET a == WithData(su, da)
        shape == ShapeOf(a)
        len == shape[a.ndim]
    IN
    IF me \notin {"frequentist", "Bernoulli"}
    THEN SigRaise("NotImplementedError", "method")
    ELSE IF a.ndim < 2
    THEN \* surr.shape[1] does not exist
         SigRaise("IndexError", "shape[1]")
    ELSE
    LET qe == IF me = "frequentist" THEN FrequentistP(q, len)
              ELSE BernoulliP(q, qb, len)
        h == TailHits(a, pos, qe)
    IN
    IF me = "Bernoulli" /\ shape[2] > 1 /\ a.ndim >= 3
    THEN LET be == BernoulliPb(q, qb, shape[2])
         IN  IF BelowAlpha(qe, Frac(be.num, be.den * shape[1])) = {}
             THEN SigRaise("IndexError", "x[y < alpha][0]")
             ELSE LET t == GroupThr(qe, be, shape[1], shape[2])
                  IN  [err |-> NoErr, real_pos |-> Some(pos), hits |-> Some(h),
                       thr |-> Some(t), stat_mask |-> Some(GroupMask(h, t))]
    ELSE [err |-> NoErr, real_pos |-> Some(pos), hits |-> Some(h),
          thr |-> None, stat_mask |-> Some(h)]

(***************************************************************************)
(* operations/surrogates.py: random_sign                                   *)
(* An array is [ndim, arr]; the entries are integers, which stand for the  *)
(* float64 values of the same magnitude.                                   *)
(***************************************************************************)
Abs(x) == IF x < 0 THEN 0 - x ELSE x

\* the float32 nearest to the integer x, |x| < 2^25 (ties to even)
Float32(x) ==
    LET a == Abs(x)
        r == IF a < 16777216 \/ a % 2 = 0 THEN a
             ELSE IF (a + 1) % 4 = 0 THEN a + 1 ELSE a - 1
    IN  IF x < 0 THEN 0 - r ELSE r

\* np.random.default_rng(seed): the stream of integers is a function of the
\* seed; a stream is described by a period a and a phase b
SeedStream(sd) ==
    [a |-> <<1, 2, 3, 100>>[(sd % 4) + 1], b |-> (sd \div 4) % 2]

\* np.random.default_rng() whatever the seed: always the entropy of the system
EntropyRng(sd) == {SeedStream(k) : k \in 0..7}

\* with seed None the stream comes from the entropy of the system
default_rng(sd) ==
    IF sd = None THEN {SeedStream(k) : k \in 0..7} ELSE {SeedStream(sd[1])}

\* the t-th integer (t = 0, 1, ..) of rng.integers(0, 1, endpoint=True)
StreamBit(g, t) == ((t \div g.a) + g.b) % 2

\* r_sign = rng.integers(0, 1, size, endpoint=True); r_sign[r_sign == 0] = -1
\* for the draw that starts at the t0-th integer of the stream
r_sign(g, t0, size) ==
    [c \in 1..size |-> IF StreamBit(g, t0 + c - 1) = 0 THEN 0 - 1 ELSE 1]

\* m * s for a 2-D m and a 1-D s multiplies row i by s[i]
TimesRows(m, s) ==
    [i \in 1..Len(m) |-> [j \in 1..Len(m[i]) |-> m[i][j] * s[i]]]

\* m * s for a 2-D m and a 1-D s: numpy aligns s with the last axis of m
\* (a vector of length 1 is repeated)
TimesLastAxis(m, s) ==
    [i \in 1..Len(m) |->
        [j \in 1..Len(m[i]) |-> m[i][j] * s[IF Len(s) = 1 THEN 1 ELSE j]]]

\* whether eigenvec * r_sign has the shape of eigenvec, r_sign having
\* eigenvec.shape[0] entries
SignShapeOk(ndim, m) ==
    ndim = 1 \/ Len(m) = 1 \/ Len(m[1]) = Len(m)

\* eigenvec[..., j] of a 3-D eigenvec
Plane(ev, j) ==
    [i \in 1..Len(ev) |-> [m \in 1..Len(ev[i]) |-> ev[i][m][j]]]

SignRaise(exc, at) == [err |-> [exc |-> exc, at |-> at], rand_evec |-> None]

\* random_sign(eigenvec, n_surr, seed, stack), g being default_rng(seed)
random_sign(ev, ns, g, stk) ==
    IF ev.ndim > 3 THEN SignRaise("NotImplementedError", "ndim")
    ELSE
    LET size == Len(ev.arr)
        depth == IF ev.ndim = 3 THEN Len(ev.arr[1][1]) ELSE 1
        broadcast == IF ev.ndim = 3 THEN SignShapeOk(2, Plane(ev.arr, 1))
                     ELSE SignShapeOk(ev.ndim, ev.arr)
        nlast == IF stk THEN ns + 1 ELSE ns
        \* surrogate k (k = i + 1) of a 1-D or 2-D eigenvec
        flat(k) == IF ev.ndim = 1
                   THEN [i \in 1..size |->
                            ev.arr[i] * r_sign(g, (k - 1) * size, size)[i]]
                   ELSE TimesLastAxis(ev.arr, r_sign(g, (k - 1) * size, size))
        \* slice j of surrogate k of a 3-D eigenvec
        deep(k, j) == TimesLastAxis(Plane(ev.arr, j),
                          r_sign(g, ((k - 1) * depth + (j - 1)) * size, size))
    IN
    IF ns > 0 /\ depth > 0 /\ ~broadcast
    THEN SignRaise("ValueError", "broadcast")
    ELSE [err |-> NoErr,
          rand_evec |-> Some([ndim |-> ev.ndim + 1, arr |->
            IF ev.ndim = 1
            THEN [i \in 1..size |-> [k \in 1..nlast |->
                     IF k > ns THEN ev.arr[i] ELSE Float32(flat(k)[i])]]
            ELSE IF ev.ndim = 2
            THEN [i \in 1..size |-> [j \in 1..Len(ev.arr[i]) |->
                     [k \in 1..nlast |->
                         IF k > ns THEN ev.arr[i][j]
                         ELSE Float32(flat(k)[i][j])]]]
            ELSE [i \in 1..size |-> [m \in 1..Len(ev.arr[i]) |->
                     [j \in 1..depth |-> [k \in 1..nlast |->
                         IF k > ns THEN ev.arr[i][m][j]
                         ELSE Float32(deep(k, j)[i][m])]]]]])]

(***************************************************************************)
(* operations/laplacian.py: decomposition                                  *)
(* np.linalg.eig is not part of the sources: its answer for a matrix is a  *)
(* record [val, vec] of n eigenvalues and an array with one column per     *)
(* eigenvalue, the same whenever the same matrix is asked for.             *)
(***************************************************************************)
\* the orders np.argsort may return for the values v: every permutation
\* that puts them in non-decreasing order
ArgsortOrders(v) ==
    {idx \in [1..Len(v) -> 1..Len(v)] :
        /\ \A a, b \in 1..Len(v) : a # b => idx[a] # idx[b]
        /\ \A a \in 1..(Len(v) - 1) : v[idx[a]] <= v[idx[a + 1]]}

\* the eigenvectors keep the order the solver gave them
DecompositionUnsortedVec(ans, idx) ==
    [eigenval |-> [k \in 1..Len(idx) |-> ans.val[idx[k]]],
     eigenvec |-> ans.vec]

\* decomposition(mtx), ans being np.linalg.eig(mtx) and idx the outcome of
\* np.argsort(eigenval): eigenval[idx], eigenvec[:, idx]
decomposition(ans, idx) ==
    [eigenval |-> [k \in 1..Len(idx) |-> ans.val[idx[k]]],
     eigenvec |-> [r \in 1..Len(ans.vec) |->
                      [k \in 1..Len(idx) |-> ans.vec[r][idx[k]]]]]

(***************************************************************************)
(* operations/surrogates.py: _create_surr, sc_informed, sc_uninformed      *)
(* The timeseries is an array [ndim, arr] whose first axis is longer than  *)
(* 1, the eigenvectors are a 2-D matrix with more than one column.         *)
(***************************************************************************)
\* a.squeeze(): the axes of length 1 are dropped
Squeeze(a) ==
    IF a.ndim = 2 /\ Len(a.arr[1]) = 1
    THEN [ndim |-> 1, arr |-> [i \in 1..Len(a.arr) |-> a.arr[i][1]]]
    ELSE IF a.ndim = 3 /\ Len(a.arr[1]) = 1 /\ Len(a.arr[1][1]) = 1
    THEN [ndim |-> 1, arr |-> [i \in 1..Len(a.arr) |-> a.arr[i][1][1]]]
    ELSE IF a.ndim = 3 /\ Len(a.arr[1]) = 1
    THEN [ndim |-> 2, arr |-> [i \in 1..Len(a.arr) |-> a.arr[i][1]]]
    ELSE IF a.ndim = 3 /\ Len(a.arr[1][1]) = 1
    THEN [ndim |-> 2,
          arr |-> [i \in 1..Len(a.arr) |->
                      [t \in 1..Len(a.arr[i]) |-> a.arr[i][t][1]]]]
    ELSE a

\* temp_ts[:, :, u]
Subject(arr, u) ==
    [i \in 1..Len(arr) |-> [t \in 1..Len(arr[i]) |-> arr[i][t][u]]]

GftRaise(exc, at) == [err |-> [exc |-> exc, at |-> at], val |-> None]

\* graph_fourier_transform(timeseries, eigenvec) for 1 to 3 dimensions:
\* the projection of a 3-D timeseries is kept in a float32 array
graph_fourier_transform_nd(ts, evec) ==
    LET s == Squeeze(ts)
    IN  IF Len(s.arr) # NRows(evec) THEN GftRaise("ValueError", "matmul")
        ELSE IF s.ndim = 1
        THEN [err |-> NoErr,
              val |-> [ndim |-> 1,
                       arr |-> [c \in 1..NCols(evec) |->
                                   SumSeq([k \in 1..NRows(evec) |->
                                               evec[k][c] * s.arr[k]])]]]
        ELSE IF s.ndim = 2
        THEN [err |-> NoErr,
              val |-> [ndim |-> 2, arr |-> MatMul(Transpose(evec), s.arr)]]
        ELSE IF NCols(evec) # NRows(evec)
        THEN GftRaise("ValueError", "broadcast")
        ELSE [err |-> NoErr,
              val |-> [ndim |-> 3,
                       arr |-> [i \in 1..Len(s.arr) |->
                                  [t \in 1..Len(s.arr[i]) |->
                                     [u \in 1..Len(s.arr[i][t]) |->
                                        Float32(MatMul(Transpose(evec),
                                                Subject(s.arr, u))[i][t])]]]]]

\* rand_evec[..., k].T
SurrogateTransposed(rand, k) ==
    [j \in 1..Len(rand.arr[1]) |->
        [i \in 1..Len(rand.arr) |-> rand.arr[i][j][k]]]

\* rand_evec[..., k]
Surrogate(rand, k) ==
    [i \in 1..Len(rand.arr) |->
        [j \in 1..Len(rand.arr[i]) |-> rand.arr[i][j][k]]]

\* np.empty(a.shape + (0,))
EmptyLast(a) ==
    [ndim |-> a.ndim + 1,
     arr |-> IF a.ndim = 1 THEN [i \in 1..Len(a.arr) |-> <<>>]
             ELSE IF a.ndim = 2
             THEN [i \in 1..Len(a.arr) |-> [t \in 1..Len(a.arr[i]) |-> <<>>]]
             ELSE [i \in 1..Len(a.arr) |-> [t \in 1..Len(a.arr[i]) |->
                      [u \in 1..Len(a.arr[i][t]) |-> <<>>]]]]

\* surr[..., k] = vals[n - 1 - k]: the ensemble in the opposite order
StackReversed(ts, vals) ==
    [ndim |-> ts.ndim + 1,
     arr |-> IF ts.ndim = 2
             THEN [i \in 1..Len(ts.arr) |-> [t \in 1..Len(ts.arr[i]) |->
                      [k \in 1..Len(vals) |->
                          Float32(vals[Len(vals) + 1 - k].arr[i][t])]]]
             ELSE [i \in 1..Len(ts.arr) |-> [t \in 1..Len(ts.arr[i]) |->
                      [u \in 1..Len(ts.arr[i][t]) |->
                         [k \in 1..Len(vals) |->
                             Float32(vals[Len(vals) + 1 - k].arr[i][t][u])]]]]]

\* surr[..., k] = vals[k] for every k, stored as float32
StackLast(ts, vals) ==
    [ndim |-> ts.ndim + 1,
     arr |-> IF ts.ndim = 2
             THEN [i \in 1..Len(ts.arr) |-> [t \in 1..Len(ts.arr[i]) |->
                      [k \in 1..Len(vals) |-> Float32(vals[k].arr[i][t])]]]
             ELSE [i \in 1..Len(ts.arr) |-> [t \in 1..Len(ts.arr[i]) |->
                      [u \in 1..Len(ts.arr[i][t]) |->
                         [k \in 1..Len(vals) |-> Float32(vals[k].arr[i][t][u])]]]]]

SurrRaise(e) == [err |-> e, surr |-> None, rand_evec |-> None]

\* _create_surr(timeseries, eigenvec, n_surr, seed, stack), g being the
\* generator that random_sign makes from the seed
create_surr(ts, evec, ns, g, stk) ==
    LET rs == random_sign([ndim |-> 2, arr |-> evec], ns, g, stk)
        total == IF stk THEN ns + 1 ELSE ns
        coeff == graph_fourier_transform_nd(ts, evec)
        first == graph_fourier_transform_nd(coeff.val,
                     Transpose(Surrogate(rs.rand_evec[1], 1)))
        vals == [k \in 1..total |->
                    graph_fourier_transform_nd(coeff.val,
                        Transpose(Surrogate(rs.rand_evec[1], k))).val]
    IN  IF rs.err # NoErr THEN SurrRaise(rs.err)
        ELSE IF coeff.err # NoErr THEN SurrRaise(coeff.err)
        ELSE IF total = 0
        THEN [err |-> NoErr, surr |-> Some(EmptyLast(ts)),
              rand_evec |-> rs.rand_evec]
        ELSE IF ts.ndim < 2
        THEN SurrRaise([exc |-> "NotImplementedError", at |-> "dimensions"])
        ELSE IF first.err # NoErr THEN SurrRaise(first.err)
        ELSE IF ShapeOf(first.val) # ShapeOf(ts)
        THEN SurrRaise([exc |-> "ValueError", at |-> "broadcast"])
        ELSE [err |-> NoErr, surr |-> Some(StackLast(ts, vals)),
              rand_evec |-> rs.rand_evec]

\* sc_informed(timeseries, eigenvec, n_surr, seed, stack)
sc_informed(ts, evec, ns, g, stk) ==
    IF ts.ndim > 3
    THEN SurrRaise([exc |-> "NotImplementedError", at |-> "timeseries"])
    ELSE create_surr(ts, evec, ns, g, stk)

\* np.eye(lapl_mtx.shape[0]) - lapl_mtx
SymmNorm(lapl) ==
    [r \in 1..NRows(lapl) |->
        [c \in 1..NCols(lapl) |-> (IF r = c THEN 1 ELSE 0) - lapl[r][c]]]

\* symm_norm.sum(axis=-1)
RowSums(m) == [r \in 1..NRows(m) |-> SumSeq(m[r])]

\* conf_lapl * symm_norm.sum(): np.diag(sums) - np.outer(sums, sums) / total
ConfLaplTimesTotal(lapl) ==
    LET sums == RowSums(SymmNorm(lapl))
        total == SumSeq(sums)
    IN  [r \in 1..Len(sums) |->
            [c \in 1..Len(sums) |->
                (IF r = c THEN sums[r] * total ELSE 0) - sums[r] * sums[c]]]

\* sc_uninformed(timeseries, lapl_mtx, n_surr, seed, stack), ans being the
\* answer of np.linalg.eig for conf_lapl and idx the order of its values
sc_uninformed(ts, lapl, ns, g, stk, ans, idx) ==
    IF ts.ndim > 3
    THEN SurrRaise([exc |-> "NotImplementedError", at |-> "timeseries"])
    ELSE IF NCols(lapl) # NRows(lapl)
    THEN SurrRaise([exc |-> "ValueError", at |-> "broadcast"])
    ELSE IF SumSeq(RowSums(SymmNorm(lapl))) = 0
    THEN \* conf_model is 0/0 or x/0 everywhere
         SurrRaise([exc |-> "LinAlgError", at |-> "conf_lapl"])
    ELSE create_surr(ts, decomposition(ans, idx).eigenvec, ns, g, stk)

(***************************************************************************)
(* operations/laplacian.py: compute_laplacian.  A matrix is a record       *)
(* [den, arr]: a finite entry [c |-> "fin", n |-> k] is the number k/den;  *)
(* the other entries are the nan and the infinities of IEEE arithmetic.    *)
(***************************************************************************)
Fin(k) == [c |-> "fin", n |-> k]
NaN == [c |-> "nan", n |-> 0]
PosInf == [c |-> "+inf", n |-> 0]
NegInf == [c |-> "-inf", n |-> 0]

\* a + b and a - b in IEEE arithmetic, for entries over one denominator
XAdd(a, b) ==
    IF a.c = "nan" \/ b.c = "nan" THEN NaN
    ELSE IF a.c = "fin" /\ b.c = "fin" THEN Fin(a.n + b.n)
    ELSE IF a.c = "fin" THEN b
    ELSE IF b.c = "fin" THEN a
    ELSE IF a.c = b.c THEN a
    ELSE NaN

XNeg(a) ==
    IF a.c = "fin" THEN Fin(0 - a.n)
    ELSE IF a.c = "+inf" THEN NegInf
    ELSE IF a.c = "-inf" THEN PosInf
    ELSE NaN

XSub(a, b) == XAdd(a, XNeg(b))

RECURSIVE XSum(_)
XSum(s) == IF Len(s) = 0 THEN Fin(0) ELSE XAdd(XSum(SubSeq(s, 1, Len(s) - 1)), s[Len(s)])

\* the smallest and the largest entry of an integer matrix
MtxMin(m) ==
    CHOOSE x \in {m[i][j] : i \in 1..NRows(m), j \in 1..NCols(m)} :
        \A i \in 1..NRows(m), j \in 1..NCols(m) : x <= m[i][j]

MtxMax(m) ==
    CHOOSE x \in {m[i][j] : i \in 1..NRows(m), j \in 1..NCols(m)} :
        \A i \in 1..NRows(m), j \in 1..NCols(m) : x >= m[i][j]

Entrywise(m, den, f(_)) ==
    [den |-> den,
     arr |-> [i \in 1..NRows(m) |-> [j \in 1..NCols(m) |-> f(m[i][j])]]]

\* (mtx - mtx.min()) / mtx.max(): a division by zero gives inf, or nan for 0/0
Rescale(m) ==
    LET lo == MtxMin(m)
        hi == MtxMax(m)
        quot(x) == IF hi # 0 THEN Fin(x - lo)
                   ELSE IF x - lo = 0 THEN NaN ELSE PosInf
    IN  Entrywise(m, IF hi # 0 THEN hi ELSE 1, quot)

\* the matrix after the treatment of its negative values, None for an
\* unknown negval
NegvalApplied(m, negval) ==
    LET abs(x) == Fin(Abs(x))
        rem(x) == Fin(IF x < 0 THEN 0 ELSE x)
        same(x) == Fin(x)
    IN  IF MtxMin(m) < 0
        THEN (IF negval = "absolute" THEN Some(Entrywise(m, 1, abs))
              ELSE IF negval = "remove" THEN Some(Entrywise(m, 1, rem))
              ELSE IF negval = "rescale" THEN Some(Rescale(m))
              ELSE None)
        ELSE Some(Entrywise(m, 1, same))

\* adjacency[np.diag_indices(n)] = d
SetDiag(a, d) ==
    [a EXCEPT !.arr = [i \in 1..Len(a.arr) |-> [j \in 1..Len(a.arr[i]) |->
                          IF i = j THEN d[i] ELSE a.arr[i][j]]]]

\* a.sum(axis=1)
XRowSums(a) == [i \in 1..Len(a.arr) |-> XSum(a.arr[i])]

\* the selfloops argument: False, True, "degree", an array, anything else
LoopsFalse == [kind |-> "False", ndim |-> 0, arr |-> <<>>]
LoopsTrue == [kind |-> "True", ndim |-> 0, arr |-> <<>>]
LoopsDegree == [kind |-> "degree", ndim |-> 0, arr |-> <<>>]
LoopsArray(nd, a) == [kind |-> "ndarray", ndim |-> nd, arr |-> a]
LoopsOther == [kind |-> "other", ndim |-> 0, arr |-> <<>>]

LaplRaise(exc, at) ==
    [err |-> [exc |-> exc, at |-> at], lapl |-> None, degree |-> None,
     adjacency |-> None]

\* compute_laplacian(mtx, negval, selfloops)
compute_laplacian(m, negval, selfloops) ==
    LET pos == NegvalApplied(m, negval)
    IN
    IF pos = None THEN LaplRaise("NotImplementedError", "negval")
    ELSE
    LET zero == [i \in 1..NRows(m) |-> Fin(0)]
        noloops == SetDiag(pos[1], zero)
    IN
    IF selfloops.kind = "ndarray" /\ selfloops.ndim > 1
    THEN LaplRaise("NotImplementedError", "selfloops")
    ELSE IF selfloops.kind = "ndarray" /\ Len(selfloops.arr) # NRows(m)
    THEN LaplRaise("ValueError", "selfloops")
    ELSE IF selfloops.kind = "other"
    THEN LaplRaise("NotImplementedError", "selfloops")
    ELSE
    LET adjacency ==
            IF selfloops.kind = "False" THEN noloops
            ELSE IF selfloops.kind = "True" THEN pos[1]
            ELSE IF selfloops.kind = "ndarray"
            THEN SetDiag(pos[1], [i \in 1..NRows(m) |->
                                     Fin(selfloops.arr[i] * pos[1].den)])
            ELSE SetDiag(noloops, XRowSums(noloops))
        degree == XRowSums(adjacency)
    IN  [err |-> NoErr,
         lapl |-> Some([den |-> adjacency.den,
                        arr |-> [i \in 1..NRows(m) |-> [j \in 1..NCols(m) |->
                                    XSub(IF i = j THEN degree[i] ELSE Fin(0),
                                         adjacency.arr[i][j])]]]),
         degree |-> Some(degree),
         adjacency |-> Some(adjacency)]

(***************************************************************************)
(* operations/laplacian.py: normalisation, symmetric_normalised_laplacian, *)
(* recomposition.  The arrays are float arrays that hold integers.  An     *)
(* entry of a normalised matrix is [c, id, n, l, r]: of class "fin" it is  *)
(* the number id - n * l^e * r^e, e being -1/2 or -1 as the normalisation  *)
(* says; the other classes are nan and the infinities.                     *)
(***************************************************************************)
Entry(k) == [c |-> "fin", id |-> 0, n |-> k, l |-> 1, r |-> 1]
EntryNaN == [c |-> "nan", id |-> 0, n |-> 0, l |-> 1, r |-> 1]
EntryInf(positive) ==
    [c |-> IF positive THEN "+inf" ELSE "-inf", id |-> 0, n |-> 0, l |-> 1,
     r |-> 1]

\* deg ** (-1/2) and deg ** (-1): inf for 0, nan for the root of a negative
InversePower(deg, e) ==
    IF deg = 0 THEN [c |-> "+inf", deg |-> 0]
    ELSE IF deg < 0 /\ e = "-1/2" THEN [c |-> "nan", deg |-> deg]
    ELSE [c |-> "fin", deg |-> deg]

Positive(k) == k > 0

\* x * f in IEEE arithmetic, f a diagonal element that multiplies from the
\* left or from the right
TimesFactor(x, f, left) ==
    IF x.c = "nan" \/ f.c = "nan" THEN EntryNaN
    ELSE IF x.c = "fin" /\ f.c = "fin"
    THEN (IF left THEN [x EXCEPT !.l = f.deg] ELSE [x EXCEPT !.r = f.deg])
    ELSE IF x.c = "fin"
    THEN (IF x.n = 0 THEN EntryNaN
          ELSE EntryInf(Positive(x.n) = Positive(x.l * x.r)))
    ELSE IF f.c = "fin" THEN EntryInf((x.c = "+inf") = Positive(f.deg))
    ELSE x

\* np.diag(f) @ x: the zeros off the diagonal turn a nan or an inf of the
\* same column into nan
ScaleRows(f, x) ==
    [r \in 1..Len(x) |-> [c \in 1..Len(x[r]) |->
        IF \E k \in 1..Len(x) : k # r /\ x[k][c].c # "fin" THEN EntryNaN
        ELSE TimesFactor(x[r][c], f[r], TRUE)]]

\* x @ np.diag(f)
ScaleCols(x, f) ==
    [r \in 1..Len(x) |-> [c \in 1..Len(x[r]) |->
        IF \E k \in 1..Len(x[r]) : k # c /\ x[r][k].c # "fin" THEN EntryNaN
        ELSE TimesFactor(x[r][c], f[c], FALSE)]]

AsEntries(m) == [r \in 1..NRows(m) |-> [c \in 1..NCols(m) |-> Entry(m[r][c])]]

\* deg.diagonal() == deg.sum(axis=1), np.diag(d) == d.sum(axis=-1): the
\* test for a diagonal (square) matrix
DiagonalIsRowSum(d) == \A r \in 1..NRows(d) : d[r][r] = SumSeq(d[r])

Diagonal(d) == [r \in 1..NRows(d) |-> d[r][r]]

\* np.diag(v)
Diag(v) == [r \in 1..Len(v) |-> [c \in 1..Len(v) |-> IF r = c THEN v[r] ELSE 0]]

\* deg[deg == 0] = 1
FixZeros(deg) == [r \in 1..Len(deg) |-> IF deg[r] = 0 THEN 1 ELSE deg[r]]

NormRaise(exc, at) == [err |-> [exc |-> exc, at |-> at], out |-> None]

\* normalisation(lapl, degree, norm, fix_zeros) for a 2-D lapl and a degree
\* [ndim, arr] of 0, 1, or 2 (square) dimensions
normalisation(lapl, degree, norm, fix_zeros) ==
    IF 2 - degree.ndim > 1 THEN NormRaise("NotImplementedError", "ndim")
    ELSE IF degree.ndim = 2 /\ ~DiagonalIsRowSum(degree.arr)
    THEN NormRaise("ValueError", "diagonal")
    ELSE
    LET deg == IF degree.ndim = 2 THEN Diagonal(degree.arr) ELSE degree.arr
    IN
    IF Len(deg) # NCols(lapl) THEN NormRaise("ValueError", "shape")
    ELSE
    LET fixed == IF fix_zeros THEN FixZeros(deg) ELSE deg
        root == [r \in 1..Len(deg) |-> InversePower(fixed[r], "-1/2")]
        inv == [r \in 1..Len(deg) |-> InversePower(fixed[r], "-1")]
    IN
    IF norm \in {"symmetric", "symm"}
    THEN [err |-> NoErr,
          out |-> Some(ScaleCols(ScaleRows(root, AsEntries(lapl)), root))]
    ELSE IF norm \in {"random walk", "rw", "random walk inflow", "rwi"}
    THEN [err |-> NoErr, out |-> Some(ScaleRows(inv, AsEntries(lapl)))]
    ELSE IF norm \in {"random walk outflow", "rwo"}
    THEN [err |-> NoErr, out |-> Some(ScaleCols(AsEntries(lapl), inv))]
    ELSE NormRaise("NotImplementedError", "norm")

\* identity_mat - symm_norm
IdentityMinus(ident, x) ==
    [r \in 1..Len(x) |-> [c \in 1..Len(x[r]) |->
        IF x[r][c].c = "nan" THEN EntryNaN
        ELSE IF x[r][c].c = "fin"
        THEN [x[r][c] EXCEPT !.id = IF r = c THEN ident[r] ELSE 0]
        ELSE EntryInf(x[r][c].c = "-inf")]]

\* symmetric_normalised_laplacian(mtx, d, fix_zeros), d None or an array
\* [ndim, arr] of 1 or 2 (square) dimensions
symmetric_normalised_laplacian(m, d, fix_zeros) ==
    IF d # None /\ d[1].ndim # 1 /\ ~DiagonalIsRowSum(d[1].arr)
    THEN NormRaise("ValueError", "diagonal")
    ELSE IF d # None
            /\ LET dm == IF d[1].ndim = 1 THEN Diag(d[1].arr) ELSE d[1].arr
               IN  NRows(dm) # NRows(m) \/ NCols(dm) # NCols(m)
    THEN NormRaise("ValueError", "shape")
    ELSE
    LET colsum == [r \in 1..NRows(m) |-> SumSeq(m[r])]
        identity_mat == [r \in 1..NRows(m) |-> IF colsum[r] # 0 THEN 1 ELSE 0]
        fixed == IF fix_zeros THEN FixZeros(colsum) ELSE colsum
        root == [r \in 1..NRows(m) |-> InversePower(fixed[r], "-1/2")]
        symm_norm ==
            IF d = None THEN ScaleCols(ScaleRows(root, AsEntries(m)), root)
            ELSE LET dm == IF d[1].ndim = 1 THEN Diag(d[1].arr) ELSE d[1].arr
                 IN  AsEntries(MatMul(MatMul(dm, m), dm))
    IN  [err |-> NoErr, out |-> Some(IdentityMinus(identity_mat, symm_norm))]

\* recomposition(eigenval, eigenvec) for arrays val and vec, [ndim, arr]
\* each, a 2-D val being square
recomposition(val, vec) ==
    IF vec.ndim > 2 THEN NormRaise("NotImplementedError", "ndim")
    ELSE IF val.ndim < vec.ndim - 1
    THEN NormRaise("ValueError", "not enough dimensions")
    ELSE IF val.ndim > vec.ndim
    THEN NormRaise("ValueError", "too many dimensions")
    ELSE IF val.ndim = vec.ndim /\ ~DiagonalIsRowSum(val.arr)
    THEN NormRaise("ValueError", "diagonal")
    ELSE
    LET dval == IF val.ndim = vec.ndim - 1 THEN Diag(val.arr)
               ELSE val.arr
    IN  IF NCols(vec.arr) # NRows(dval)
        THEN NormRaise("ValueError", "matmul")
        ELSE [err |-> NoErr,
              out |-> Some(MatMul(MatMul(vec.arr, dval),
                                  Transpose(vec.arr)))]

(***************************************************************************)
(* operations/timeseries.py: graph_fourier_transform, the shapes           *)
(* What the function does to the shape of the timeseries, for energy=False *)
(* and mean=False and a square matrix of eigenvectors (n, n).              *)
(***************************************************************************)
RECURSIVE ProdSeq(_)
ProdSeq(s) == IF s = <<>> THEN 1 ELSE Head(s) * ProdSeq(Tail(s))

\* timeseries.squeeze().shape: every axis of length 1 is dropped
SqueezedShape(sh) == SelectSeq(sh, LAMBDA a : a # 1)

\* utils.prepare_ndim_iteration(data, idx): the shape of the reshaped data,
\* which is also the shape of the empty array returned with it
prepare_ndim_iteration(sh, idx) ==
    IF Len(sh) > idx + 1
    THEN SubSeq(sh, 1, idx) \o <<ProdSeq(SubSeq(sh, idx + 1, Len(sh)))>>
    ELSE sh

\* the shape of eigenvec.conj().T @ x for an operand x of up to two
\* dimensions: np.matmul refuses a 0-d operand and a first axis that is not n
MatmulShape(n, sh) ==
    IF Len(sh) = 0 \/ sh[1] # n
    THEN [err |-> [exc |-> "ValueError", at |-> "matmul"], shape |-> None]
    ELSE [err |-> NoErr, shape |-> Some(<<n>> \o Tail(sh))]

\* the shape of graph_fourier_transform(timeseries, eigenvec)
graph_fourier_transform_shape(sh, n) ==
    LET s == SqueezedShape(sh)
    IN  IF Len(s) < 3 THEN MatmulShape(n, s)
        ELSE
        LET temp == prepare_ndim_iteration(s, 2)
            \* np.squeeze(temp_ts[:, :, i]): the two axes are longer than 1
            one == MatmulShape(n, SubSeq(temp, 1, 2))
        IN  IF one.err # NoErr THEN one
            ELSE [err |-> NoErr,
                  shape |-> Some(IF Len(s) > 3 THEN s ELSE temp)]

(***************************************************************************)
(* objects.py: SCGraph.split_graph                                         *)
(***************************************************************************)
MedianIdx == [kind |-> "median", n |-> 0]
IntIdx(f) == [kind |-> "int", n |-> f]
NoIdx == [kind |-> "none", n |-> 0]
OtherIdx == [kind |-> "other", n |-> 0]

\* the index split_graph works with: the argument, or self.index when the
\* argument is None
ResolveIdx(arg, stored) ==
    IF arg.kind = "none"
    THEN (IF stored = None THEN NoIdx ELSE IntIdx(stored[1]))
    ELSE arg

SplitRaise(exc, at) ==
    [err |-> [exc |-> exc, at |-> at], idx |-> None,
     evec_split |-> None, ts_split |-> None]

split_graph(ts, evec, en, stored, arg, ks) ==
    LET ix == ResolveIdx(arg, stored)
    IN
    IF ix.kind = "median" /\ en = None
    THEN SplitRaise("AttributeError", "energy")
    ELSE
    LET med == IF ix.kind = "median"
               THEN median_cutoff_frequency_idx(en[1])
               ELSE [err |-> NoErr, idx |-> None]
    IN
    IF med.err # NoErr THEN SplitRaise(med.err.exc, med.err.at)
    ELSE IF ix.kind \notin {"median", "int"}
    THEN SplitRaise("ValueError", "index type")
    ELSE
    LET f == IF ix.kind = "median" THEN med.idx[1] ELSE ix.n
        r == graph_filter(ts, evec, IntArg(f), ks)
    IN  [err |-> r.err, idx |-> Some(f),
         evec_split |-> r.evec_split, ts_split |-> r.ts_split]

\* the stored index wins over the argument
SplitGraphStoredFirst(ts, evec, en, field, arg, ks) ==
    split_graph(ts, evec, en, None,
                IF field.kind # "none" THEN field ELSE arg, ks)

\* split_graph on an object whose index field holds any value ('median',
\* an integer, None or something else): the argument, when it is None, is
\* replaced by the field before anything else is looked at
SplitGraphStored(ts, evec, en, field, arg, ks) ==
    split_graph(ts, evec, en, None,
                IF arg.kind = "none" THEN field ELSE arg, ks)

(***************************************************************************)
(* Inputs                                                                  *)
(***************************************************************************)
\* eigenvectors of the Laplacian of a graph without edges (all nodes
\* isolated): the Laplacian is diagonal and its eigenvectors are the axes
Identity(n) == [r \in 1..n |-> [c \in 1..n |-> IF r = c THEN 1 ELSE 0]]

\* a dense matrix, every entry different and non-zero
Counting(n) == [r \in 1..n |-> [c \in 1..n |-> (r - 1) * n + c]]

\* a matrix with negative entries and a zero diagonal
Skew(n) == [r \in 1..n |-> [c \in 1..n |-> c - r]]

EvecInputs(n) == {Identity(n), Counting(n), Skew(n)}

ZeroRow(t) == [c \in 1..t |-> 0]
RampRow(t) == [c \in 1..t |-> c]

TsInputs(n) ==
    UNION {[1..n -> {ZeroRow(t), RampRow(t)}] : t \in MinT..MaxT}

CutValues == (0 - MaxCut)..MaxCut

CutInputs ==
    {IntArg(f) : f \in CutValues}
    \cup {ListArg(<<f>>) : f \in 1..2}
    \cup {ListArg(<<f, g>>) : f \in CutValues, g \in CutValues}

KeyInputs == {<<"low", "high">>, <<"HIGH", "LOW">>, <<"alpha", "beta">>,
              <<"alpha", "beta", "gamma">>, <<"low">>}

\* the energy of the unit test, [[0,3],[1,2],[0,1],[0.5,0.5]], in halves
ExampleEnergy == <<<<0, 6>>, <<2, 4>>, <<0, 2>>, <<1, 1>>>>

EnergyInputs ==
    {[ndim |-> 1, arr |-> e] :
        e \in UNION {[1..n -> 0..MaxEnergy] : n \in 1..MaxModes}}
    \cup {[ndim |-> 2, arr |-> a] :
        a \in UNION {[1..n -> [1..2 -> 0..1]] : n \in 2..MaxModes}}
    \cup {[ndim |-> 2, arr |-> ExampleEnergy]}

\* no significance test was asked for
SigIdle ==
    /\ surr = None
    /\ data = None
    /\ method = None
    /\ p = None
    /\ p_bernoulli = None
    /\ real_pos = None
    /\ hits = None
    /\ thr = None
    /\ stat_mask = None

\* the fields that only the later stages use are not populated
ExtraIdle ==
    /\ sc_fn = None
    /\ lapl_mtx = None
    /\ solver = None
    /\ history = None
    /\ self = None
    /\ mtx = None
    /\ gsdi = None

\* no surrogate was asked for
SignIdle ==
    /\ n_surr = None
    /\ seed = None
    /\ stack = None
    /\ rng = None
    /\ rand_evec = None

(***************************************************************************)
(* The analysis pipeline on one graph                                      *)
(***************************************************************************)
Init ==
    /\ pc = "new"
    /\ \E n \in MinN..MaxN :
          /\ eigenvec \in EvecInputs(n)
          /\ timeseries \in TsInputs(n)
    /\ energy = None
    /\ index = None
    /\ split_arg = None
    /\ freq_idx = None
    /\ keys = None
    /\ evec_split = None
    /\ ts_split = None
    /\ sdi_keys = None
    /\ sdi = None
    /\ SigIdle
    /\ SignIdle
    /\ ExtraIdle
    /\ err = NoErr

\* operations.graph_filter(timeseries, eigenvec, freq_idx, keys)
GraphFilterCall ==
    /\ pc = "new"
    /\ \E fi \in CutInputs, ks \in KeyInputs :
          LET r == graph_filter(timeseries, eigenvec, fi, ks)
          IN  /\ freq_idx' = Some(fi)
              /\ keys' = Some(ks)
              /\ evec_split' = r.evec_split
              /\ ts_split' = r.ts_split
              /\ err' = r.err
    /\ pc' = "graph_filter"
    /\ UNCHANGED <<eigenvec, timeseries, energy, index, split_arg, sdi_keys, sdi>>
    /\ UNCHANGED <<sigVars, signVars, extraVars>>

\* SCGraph.compute_graph_energy()
ComputeGraphEnergy ==
    /\ pc = "new"
    /\ energy' = Some([ndim |-> 2,
                       arr |-> graph_fourier_energy(timeseries, eigenvec)])
    /\ pc' = "energy"
    /\ UNCHANGED <<eigenvec, timeseries, index, split_arg, freq_idx, keys,
                   evec_split, ts_split, sdi_keys, sdi, err>>
    /\ UNCHANGED <<sigVars, signVars, extraVars>>

\* SCGraph.split_graph(index, keys=["low", "high"])
SplitGraphCall ==
    /\ pc \in {"new", "energy"}
    /\ \E arg \in {MedianIdx, NoIdx, OtherIdx} \cup {IntIdx(f) : f \in 0..MaxCut} :
          LET r == split_graph(timeseries, eigenvec, energy, index, arg,
                               <<"low", "high">>)
          IN  /\ split_arg' = Some(arg)
              /\ err' = r.err
              /\ IF r.err = NoErr
                 THEN /\ evec_split' = r.evec_split
                      /\ ts_split' = r.ts_split
                      /\ index' = r.idx
                 ELSE UNCHANGED <<evec_split, ts_split, index>>
              /\ freq_idx' = IF r.idx = None THEN None ELSE Some(IntArg(r.idx[1]))
              /\ keys' = Some(<<"low", "high">>)
    /\ pc' = "split_graph"
    /\ UNCHANGED <<eigenvec, timeseries, energy, sdi_keys, sdi>>
    /\ UNCHANGED <<sigVars, signVars, extraVars>>

\* operations.sdi(ts_split, keys=...) / SCGraph.compute_sdi
SdiCall ==
    /\ pc \in {"graph_filter", "split_graph"}
    /\ ts_split # None
    /\ \E karg \in {None} \cup
            {Some(<<DictKeys(ts_split[1])[a], DictKeys(ts_split[1])[b]>>) :
                a \in 1..Len(ts_split[1]), b \in 1..Len(ts_split[1])} :
          LET r == sdi_fn(ts_split[1], karg)
          IN  /\ sdi_keys' = karg
              /\ sdi' = r.sdi
              /\ err' = r.err
    /\ pc' = "sdi"
    /\ UNCHANGED <<eigenvec, timeseries, energy, index, split_arg, freq_idx,
                   keys, evec_split, ts_split>>
    /\ UNCHANGED <<sigVars, signVars, extraVars>>

Next ==
    \/ GraphFilterCall
    \/ ComputeGraphEnergy
    \/ SplitGraphCall
    \/ SdiCall

Spec == Init /\ [][Next]_vars

(***************************************************************************)
(* median_cutoff_frequency_idx as a function of the energy alone           *)
(***************************************************************************)
InitCutoff ==
    /\ pc = "energy input"
    /\ energy \in {Some(e) : e \in EnergyInputs}
    /\ eigenvec = None
    /\ timeseries = None
    /\ index = None
    /\ split_arg = None
    /\ freq_idx = None
    /\ keys = None
    /\ evec_split = None
    /\ ts_split = None
    /\ sdi_keys = None
    /\ sdi = None
    /\ SigIdle
    /\ SignIdle
    /\ ExtraIdle
    /\ err = NoErr

\* operations.median_cutoff_frequency_idx(energy)
MedianCutoffCall ==
    /\ pc = "energy input"
    /\ LET r == median_cutoff_frequency_idx(energy[1])
       IN  /\ index' = r.idx
           /\ err' = r.err
    /\ pc' = "median_cutoff"
    /\ UNCHANGED <<eigenvec, timeseries, energy, split_arg, freq_idx, keys,
                   evec_split, ts_split, sdi_keys, sdi>>
    /\ UNCHANGED <<sigVars, signVars, extraVars>>

NextCutoff == MedianCutoffCall

SpecCutoff == InitCutoff /\ [][NextCutoff]_vars

(***************************************************************************)
(* test_significance as a function of its arguments                        *)
(***************************************************************************)
\* n surrogate values 2, 4, .., 2n followed by the empirical value
Cell(n, real) == [c \in 1..(n + 1) |-> IF c <= n THEN 2 * c ELSE real]

\* an empirical value with as many surrogates below as above (n even)
Middle(n) == 2 * (n \div 2) + 1

\* empirical values: strict minimum, second, tied with a surrogate, middle,
\* strict maximum
RealInputs(n) == {1, 3, 4, Middle(n), 2 * n + 1}

\* the empirical value of subject u in a region where the subjects 1..c are
\* at an extreme (the minimum and the maximum in turn) and the others second
GroupReal(n, c, u) ==
    IF u > c THEN 3 ELSE IF u % 2 = 1 THEN 1 ELSE 2 * n + 1

\* ensembles observations [x subjects] x (surrogates + empirical data)
EnsembleInputs(n) ==
    {[ndim |-> 1, arr |-> Cell(n, v)] : v \in RealInputs(n)}
    \cup UNION {{[ndim |-> 2, arr |-> [r \in 1..nr |-> Cell(n, f[r])]] :
                    f \in [1..nr -> RealInputs(n)]} : nr \in 1..MaxRegions}
    \cup UNION {{[ndim |-> 3,
                  arr |-> [r \in 1..sh[1] |->
                              [u \in 1..sh[2] |->
                                  Cell(n, GroupReal(n, f[r], u))]]] :
                    f \in [1..sh[1] -> 0..sh[2]]} :
                   sh \in (1..MaxRegions) \X (1..MaxSubj)}

\* the 3-D ensembles, and one with 2 regions and 3 subjects
PrefixEnsembles(n) ==
    {e \in EnsembleInputs(n) : e.ndim = 3}
    \cup {[ndim |-> 3,
           arr |-> [r \in 1..2 |-> [u \in 1..3 |-> Cell(n, GroupReal(n, 0, u))]]]}

\* a[..., :-1]
DropLast(a) ==
    [ndim |-> a.ndim,
     arr |-> IF a.ndim = 1 THEN SubSeq(a.arr, 1, Len(a.arr) - 1)
             ELSE IF a.ndim = 2
             THEN [r \in 1..Len(a.arr) |-> SubSeq(a.arr[r], 1, Len(a.arr[r]) - 1)]
             ELSE [r \in 1..Len(a.arr) |->
                      [u \in 1..Len(a.arr[r]) |->
                          SubSeq(a.arr[r][u], 1, Len(a.arr[r][u]) - 1)]]]

\* the ways of handing the ensemble e to test_significance: the data in the
\* ensemble already, given again, given apart, or given with another shape
DataModes == {"stacked", "repeated", "apart", "mismatch", "prefix"}

SurrArg(e, mode) == IF mode = "apart" THEN DropLast(e) ELSE e

DataArg(e, mode) ==
    IF mode = "stacked" THEN None
    ELSE IF mode = "prefix"
    THEN \* one value per region, taken from the first region
         Some([ndim |-> 1,
               arr |-> [r \in 1..ShapeOf(e)[1] |->
                           LastSlice(e)[1][IF r <= ShapeOf(e)[2] THEN r ELSE 1]]])
    ELSE IF mode = "mismatch"
    THEN Some([ndim |-> 1, arr |-> [c \in 1..(ShapeOf(e)[1] + 1) |-> 0]])
    ELSE Some([ndim |-> e.ndim - 1, arr |-> LastSlice(e)])

MethodInputs == {"frequentist", "Bernoulli", "permutation"}

\* p below 0, at 0, inside the range, at 1 and above 1
PInputs ==
    {Frac(0 - 1, 10), Frac(0, 1), Frac(1, 10), Frac(2, 5), Frac(1, 1),
     Frac(11, 10)}

PbInputs == {None, Some(Frac(1, 20)), Some(Frac(1, 2))}

InitSig ==
    /\ pc = "surrogates"
    /\ \E n \in MinSurr..MaxSurr, mode \in DataModes :
          \E e \in IF mode = "prefix" THEN PrefixEnsembles(n)
                   ELSE EnsembleInputs(n) :
              /\ surr = SurrArg(e, mode)
              /\ data = DataArg(e, mode)
    /\ method \in MethodInputs
    /\ p \in PInputs
    /\ p_bernoulli \in PbInputs
    /\ real_pos = None
    /\ hits = None
    /\ thr = None
    /\ stat_mask = None
    /\ eigenvec = None
    /\ timeseries = None
    /\ energy = None
    /\ index = None
    /\ split_arg = None
    /\ freq_idx = None
    /\ keys = None
    /\ evec_split = None
    /\ ts_split = None
    /\ sdi_keys = None
    /\ sdi = None
    /\ SignIdle
    /\ ExtraIdle
    /\ err = NoErr

\* operations.test_significance(surr, data, method, p, p_bernoulli)
TestSignificanceCall ==
    /\ pc = "surrogates"
    /\ IF DataShapeOk(surr, data) /\ ~Broadcastable(surr, data)
       THEN /\ err' \in ComparisonErrors
            /\ real_pos' = None
            /\ hits' = None
            /\ thr' = None
            /\ stat_mask' = None
       ELSE \E pos \in IF SigEarlyError(surr, data, p) # NoErr THEN {None}
                       ELSE ArgsortPositions(WithData(surr, data)) :
               LET r == test_significance(surr, data, method, p, p_bernoulli,
                                          pos)
               IN  /\ real_pos' = r.real_pos
                   /\ hits' = r.hits
                   /\ thr' = r.thr
                   /\ stat_mask' = r.stat_mask
                   /\ err' = r.err
    /\ pc' = "tested"
    /\ UNCHANGED <<surr, data, method, p, p_bernoulli>>
    /\ UNCHANGED <<graphVars, signVars, extraVars>>

NextSig == TestSignificanceCall

SpecSig == InitSig /\ [][NextSig]_vars

(***************************************************************************)
(* random_sign as a function of its arguments                              *)
(***************************************************************************)
\* an entry that float32 cannot hold: 2^24 + 1
Wide == <<<<16777217, 1>>, <<0 - 2, 3>>>>

SignInputs ==
    UNION {{[ndim |-> 2, arr |-> m] : m \in EvecInputs(n)} : n \in 2..MaxSignN}
    \cup {[ndim |-> 1, arr |-> <<1, 0 - 2>>],
          [ndim |-> 2, arr |-> Wide],
          [ndim |-> 2, arr |-> <<<<1, 2, 3>>>>],
          [ndim |-> 2, arr |-> <<<<1, 2, 3>>, <<4, 5, 6>>>>],
          [ndim |-> 3, arr |-> <<<<<<1, 2>>, <<3, 4>>>>, <<<<5, 6>>, <<7, 8>>>>>>],
          [ndim |-> 4, arr |-> <<<<<<<<1>>>>>>>>]}

InitSign ==
    /\ pc = "eigenvectors"
    /\ eigenvec \in SignInputs
    /\ n_surr \in 0..MaxNSurr
    /\ seed \in {None} \cup {Some(sd) : sd \in 0..MaxSeed}
    /\ stack \in BOOLEAN
    /\ rng = None
    /\ rand_evec = None
    /\ timeseries = None
    /\ energy = None
    /\ index = None
    /\ split_arg = None
    /\ freq_idx = None
    /\ keys = None
    /\ evec_split = None
    /\ ts_split = None
    /\ sdi_keys = None
    /\ sdi = None
    /\ SigIdle
    /\ ExtraIdle
    /\ err = NoErr

\* operations.random_sign(eigenvec, n_surr, seed, stack)
RandomSignCall ==
    /\ pc = "eigenvectors"
    /\ \E g \in default_rng(seed) :
          LET r == random_sign(eigenvec, n_surr, g, stack)
          IN  /\ rng' = Some(g)
              /\ rand_evec' = r.rand_evec
              /\ err' = r.err
    /\ pc' = "random_sign"
    /\ UNCHANGED <<n_surr, seed, stack>>
    /\ UNCHANGED <<graphVars, sigVars, extraVars>>

NextSign == RandomSignCall

SpecSign == InitSign /\ [][NextSign]_vars

(***************************************************************************)
(* sc_informed and sc_uninformed as functions of their arguments           *)
(***************************************************************************)
\* orthonormal matrices with integer entries: a cyclic permutation of the
\* axes with one sign changed
SignedPerm(n) ==
    [r \in 1..n |-> [c \in 1..n |->
        IF c = (r % n) + 1 THEN (IF r = 1 THEN 0 - 1 ELSE 1) ELSE 0]]

NonSquare == <<<<1, 2, 3>>, <<4, 5, 6>>>>

SurrEvecInputs ==
    UNION {{Identity(n), SignedPerm(n), Counting(n)} : n \in 2..MaxSignN}
    \cup {NonSquare}

\* the value of node i at time t for subject u
Sample(i, t, u) == 3 * i + t - 5 * u

\* a value that float32 cannot hold: 2^24 + 1
WideSample(i, t) == IF i = 1 /\ t = 1 THEN 16777217 ELSE 3 * i + t

SurrTsInputs ==
    UNION {{[ndim |-> 1, arr |-> [i \in 1..n |-> Sample(i, 1, 1)]],
            [ndim |-> 2, arr |-> [i \in 1..n |-> [t \in 1..2 |-> Sample(i, t, 1)]]],
            [ndim |-> 2, arr |-> [i \in 1..n |-> [t \in 1..2 |-> WideSample(i, t)]]],
            [ndim |-> 2, arr |-> [i \in 1..n |-> [t \in 1..1 |-> Sample(i, t, 1)]]],
            [ndim |-> 3, arr |-> [i \in 1..n |-> [t \in 1..2 |->
                                    [u \in 1..2 |-> Sample(i, t, u)]]]],
            [ndim |-> 3, arr |-> [i \in 1..n |-> [t \in 1..2 |->
                                    [u \in 1..1 |-> Sample(i, t, u)]]]],
            [ndim |-> 4, arr |-> [i \in 1..n |-> <<<<<<Sample(i, 1, 1)>>>>>>]]} :
           n \in 2..MaxSignN}

\* the wide values are only multiplied by entries 0, 1 and -1
SmallProducts(ts, evec) ==
    IF ts.ndim = 2
    THEN IF Abs(ts.arr[1][1]) < 16777216 THEN TRUE
         ELSE \A i \in 1..Len(evec) :
                 \A j \in 1..Len(evec[i]) : Abs(evec[i][j]) <= 1
    ELSE TRUE

\* Laplacians: of isolated nodes, and of a dense graph
LaplInputs(n) ==
    {Identity(n), [r \in 1..n |-> [c \in 1..n |-> Identity(n)[r][c] - Counting(n)[r][c]]]}

\* eigenvalues in increasing order, in decreasing order, and with a tie
EigInputs(n) ==
    {[val |-> v, vec |-> m] :
        v \in {[k \in 1..n |-> k], [k \in 1..n |-> n - k],
               [k \in 1..n |-> IF k <= 2 THEN 0 ELSE k]},
        m \in {SignedPerm(n), Counting(n)}}

\* the generator is seeded, or takes its state from the system
SurrSeedInputs == {None, Some(1), Some(MaxSeed - 1)}

InitSurr ==
    /\ pc = "timeseries"
    /\ timeseries \in SurrTsInputs
    /\ \/ /\ eigenvec \in {[ndim |-> 2, arr |-> m] : m \in SurrEvecInputs}
          /\ SmallProducts(timeseries, eigenvec.arr)
          /\ lapl_mtx = None
          /\ solver = None
       \/ /\ eigenvec = None
          /\ lapl_mtx \in {Some(m) : m \in LaplInputs(Len(timeseries.arr))}
          /\ solver \in {Some([conf_lapl |-> ans]) :
                            ans \in EigInputs(Len(timeseries.arr))}
          /\ SmallProducts(timeseries, solver[1].conf_lapl.vec)
    /\ n_surr \in 0..MaxNSurr
    /\ seed \in SurrSeedInputs
    /\ stack \in BOOLEAN
    /\ rng = None
    /\ rand_evec = None
    /\ sc_fn = None
    /\ history = None
    /\ self = None
    /\ mtx = None
    /\ gsdi = None
    /\ energy = None
    /\ index = None
    /\ split_arg = None
    /\ freq_idx = None
    /\ keys = None
    /\ evec_split = None
    /\ ts_split = None
    /\ sdi_keys = None
    /\ sdi = None
    /\ SigIdle
    /\ err = NoErr

\* operations.sc_informed(timeseries, eigenvec, n_surr, seed, stack)
ScInformedCall ==
    /\ pc = "timeseries"
    /\ eigenvec # None
    /\ \E g \in default_rng(seed) :
          LET r == sc_informed(timeseries, eigenvec.arr, n_surr, g, stack)
          IN  /\ rng' = Some(g)
              /\ rand_evec' = r.rand_evec
              /\ surr' = r.surr
              /\ err' = r.err
    /\ sc_fn' = "sc_informed"
    /\ pc' = "surrogates made"
    /\ UNCHANGED <<n_surr, seed, stack, graphVars, lapl_mtx, solver, history, self, mtx, gsdi>>
    /\ UNCHANGED <<data, method, p, p_bernoulli, real_pos, hits, thr, stat_mask>>

\* operations.sc_uninformed(timeseries, lapl_mtx, n_surr, seed, stack)
ScUninformedCall ==
    /\ pc = "timeseries"
    /\ lapl_mtx # None
    /\ \E g \in default_rng(seed) :
          \E idx \in ArgsortOrders(solver[1].conf_lapl.val) :
              LET r == sc_uninformed(timeseries, lapl_mtx[1], n_surr, g, stack,
                                     solver[1].conf_lapl, idx)
              IN  /\ rng' = Some(g)
                  /\ rand_evec' = r.rand_evec
                  /\ surr' = r.surr
                  /\ err' = r.err
    /\ sc_fn' = "sc_uninformed"
    /\ pc' = "surrogates made"
    /\ UNCHANGED <<n_surr, seed, stack, graphVars, lapl_mtx, solver, history, self, mtx, gsdi>>
    /\ UNCHANGED <<data, method, p, p_bernoulli, real_pos, hits, thr, stat_mask>>

NextSurr ==
    \/ ScInformedCall
    \/ ScUninformedCall

SpecSurr == InitSurr /\ [][NextSurr]_vars

(***************************************************************************)
(* Repeated calls of random_sign, sc_informed and sc_uninformed on the     *)
(* same arguments: history holds, call after call, the function, the seed  *)
(* and what the call returned.                                             *)
(***************************************************************************)
MaxCalls == 3

\* the integer seeds of the calls
RepeatSeeds == {Some(1), Some(2), Some(MaxSeed)}

\* np.linalg.eig and np.argsort are deterministic: one answer and one
\* order for one conf_lapl, the same at every call
RepeatSolvers(n) ==
    UNION {{Some([conf_lapl |-> ans, idx |-> o]) : o \in ArgsortOrders(ans.val)} :
              ans \in {a \in EigInputs(n) : a.vec = SignedPerm(n)}}

InitRepeat ==
    /\ pc = "calls"
    /\ history = <<>>
    /\ self = None
    /\ mtx = None
    /\ gsdi = None
    /\ eigenvec = [ndim |-> 2, arr |-> SignedPerm(2)]
    /\ timeseries = [ndim |-> 2, arr |-> [i \in 1..2 |-> [t \in 1..2 |-> Sample(i, t, 0)]]]
    /\ lapl_mtx \in {Some(m) : m \in LaplInputs(2) \ {Identity(2)}}
    /\ solver \in RepeatSolvers(2)
    /\ n_surr = 1
    /\ stack \in BOOLEAN
    /\ seed = None
    /\ rng = None
    /\ rand_evec = None
    /\ sc_fn = None
    /\ energy = None
    /\ index = None
    /\ split_arg = None
    /\ freq_idx = None
    /\ keys = None
    /\ evec_split = None
    /\ ts_split = None
    /\ sdi_keys = None
    /\ sdi = None
    /\ SigIdle
    /\ err = NoErr

\* the call returns: its result joins the history, rng is the generator it made
Returns(fn, sd, g, r, e) ==
    /\ pc = "calls"
    /\ Len(history) < MaxCalls
    /\ history' = Append(history, [fn |-> fn, seed |-> sd, result |-> r, err |-> e])
    /\ sc_fn' = fn
    /\ seed' = sd
    /\ rng' = Some(g)
    /\ UNCHANGED <<pc, eigenvec, timeseries, lapl_mtx, solver, n_surr, stack, err, self, mtx, gsdi>>
    /\ UNCHANGED <<energy, index, split_arg, freq_idx, keys, evec_split,
                   ts_split, sdi_keys, sdi, rand_evec, sigVars>>

RandomSignAgain ==
    \E sd \in RepeatSeeds : \E g \in default_rng(sd) :
        LET r == random_sign(eigenvec, n_surr, g, stack)
        IN  Returns("random_sign", sd, g, r.rand_evec, r.err)

ScInformedAgain ==
    \E sd \in RepeatSeeds : \E g \in default_rng(sd) :
        LET r == sc_informed(timeseries, eigenvec.arr, n_surr, g, stack)
        IN  Returns("sc_informed", sd, g, r.surr, r.err)

ScUninformedAgain ==
    \E sd \in RepeatSeeds : \E g \in default_rng(sd) :
        LET r == sc_uninformed(timeseries, lapl_mtx[1], n_surr, g, stack,
                               solver[1].conf_lapl, solver[1].idx)
        IN  Returns("sc_uninformed", sd, g, r.surr, r.err)

NextRepeat ==
    \/ RandomSignAgain
    \/ ScInformedAgain
    \/ ScUninformedAgain

SpecRepeat == InitRepeat /\ [][NextRepeat]_vars

(***************************************************************************)
(* objects.py: the SCGraph object and its stage methods.  A field holds    *)
(* None or the kind of value a stage stored in it; mtx and timeseries hold *)
(* the shapes of the arrays the object was constructed from.               *)
(***************************************************************************)
Ndarray == Some("ndarray")
Dict == Some("dict")
\* what operations.test_significance returns
TestedArray == Some("tested")

StageRaise(o, exc, at) == [err |-> [exc |-> exc, at |-> at], self |-> o]
StageDone(o) == [err |-> NoErr, self |-> o]

\* a constructor that looks at the dimensions of the timeseries first
InitDimensionsFirst(m, ts) ==
    IF Len(ts) > 3 THEN StageRaise(None, "ValueError", "dimensions")
    ELSE IF m[2] # m[1] THEN StageRaise(None, "ValueError", "square")
    ELSE IF m[2] # ts[1] THEN StageRaise(None, "ValueError", "parcels")
    ELSE StageDone(Some([mtx |-> m, timeseries |-> ts,
                         eigenval |-> None, eigenvec |-> None,
                         energy |-> None, lapl_mtx |-> None,
                         index |-> MedianIdx,
                         evec_split |-> None, ts_split |-> None,
                         surr |-> None, surr_split |-> None,
                         sdi |-> None, gsdi |-> None]))

\* SCGraph(mtx, timeseries), every other argument at its default
SCGraph_init(m, ts) ==
    IF m[2] # m[1] THEN StageRaise(None, "ValueError", "square")
    ELSE IF m[2] # ts[1] THEN StageRaise(None, "ValueError", "parcels")
    ELSE IF Len(ts) > 3 THEN StageRaise(None, "ValueError", "dimensions")
    ELSE StageDone(Some([mtx |-> m, timeseries |-> ts,
                         eigenval |-> None, eigenvec |-> None,
                         energy |-> None, lapl_mtx |-> None,
                         index |-> MedianIdx,
                         evec_split |-> None, ts_split |-> None,
                         surr |-> None, surr_split |-> None,
                         sdi |-> None, gsdi |-> None]))

SCGraph_symmetric_normalised_laplacian(o) ==
    StageDone([o EXCEPT !.lapl_mtx = Ndarray])

\* np.linalg.eig(None) raises LinAlgError (0-dimensional array)
SCGraph_decomposition(o) ==
    IF o.lapl_mtx = None THEN StageRaise(o, "LinAlgError", "lapl_mtx")
    ELSE StageDone([o EXCEPT !.eigenval = Ndarray, !.eigenvec = Ndarray])

\* energy holds the number of axes of the energy array
SCGraph_compute_graph_energy(o, mean) ==
    IF o.eigenvec = None THEN StageRaise(o, "AttributeError", "eigenvec")
    ELSE StageDone([o EXCEPT !.energy =
             Some(IF Len(o.timeseries) > 2 /\ mean
                  THEN Len(o.timeseries) - 1 ELSE Len(o.timeseries))])

\* operations.graph_filter(ts, self.eigenvec, index) on an array ts or None
FilterRaises(o, ts, ix) ==
    IF ix.kind = "int" /\ ix.n = 0
    THEN [exc |-> "IndexError", at |-> "index"]
    ELSE IF o.eigenvec = None
    THEN [exc |-> "AttributeError", at |-> "eigenvec"]
    ELSE IF ix.kind # "int"
    THEN [exc |-> "TypeError", at |-> "index"]
    ELSE IF ix.n >= o.mtx[1] - 1
    THEN [exc |-> "IndexError", at |-> "index"]
    ELSE IF ts = None
    THEN [exc |-> "AttributeError", at |-> "timeseries"]
    ELSE NoErr

\* split_graph(index=arg); med is what median_cutoff_frequency_idx returns
\* for the stored energy
SCGraph_split_graph(o, arg, med) ==
    LET ix == IF arg.kind = "none" THEN o.index ELSE arg
    IN
    IF ix.kind = "median" /\ o.energy = None
    THEN StageRaise(o, "AttributeError", "energy")
    ELSE IF ix.kind = "median" /\ o.energy[1] > 2
    THEN StageRaise(o, "NotImplementedError", "energy")
    ELSE IF ix.kind \notin {"median", "int"}
    THEN StageRaise(o, "ValueError", "index type")
    ELSE
    LET f == IF ix.kind = "median" THEN IntIdx(med) ELSE ix
        e == FilterRaises(o, Ndarray, f)
    IN  IF e # NoErr THEN StageRaise(o, e.exc, e.at)
        ELSE StageDone([o EXCEPT !.evec_split = Dict, !.ts_split = Dict,
                                 !.index = f])

\* compute_sdi that stores nothing, and raises nothing, without ts_split
ComputeSdiNonePropagating(o) ==
    IF o.ts_split = None THEN StageDone(o)
    ELSE StageDone([o EXCEPT !.sdi = Ndarray])

SCGraph_compute_sdi(o) ==
    IF o.ts_split = None THEN StageRaise(o, "AttributeError", "ts_split")
    ELSE StageDone([o EXCEPT !.sdi = Ndarray])

SCGraph_compute_gsdi(o) ==
    IF o.ts_split = None THEN StageRaise(o, "AttributeError", "ts_split")
    ELSE StageDone([o EXCEPT !.gsdi = Dict])

\* create_surrogates(sc_type), n_surr and seed at their defaults
SCGraph_create_surrogates(o, sc_type) ==
    IF sc_type \notin {"informed", "uninformed"}
    THEN StageRaise(o, "ValueError", "sc_type")
    ELSE IF sc_type = "informed" /\ o.eigenvec = None
    THEN StageRaise(o, "AttributeError", "eigenvec")
    ELSE IF sc_type = "uninformed" /\ o.lapl_mtx = None
    THEN StageRaise(o, "AttributeError", "lapl_mtx")
    ELSE IF Len(o.timeseries) < 2
    THEN StageRaise(o, "NotImplementedError", "dimensions")
    ELSE StageDone([o EXCEPT !.surr = Ndarray])

\* test_significance(), every argument at its default: operations.gsdi
\* returns a dict, and operations.test_significance reads surr.shape
SCGraph_test_significance(o) ==
    LET e == FilterRaises(o, o.surr, o.index)
        split == [o EXCEPT !.surr_split = Dict]
        first == IF o.sdi = None THEN split
                 ELSE [split EXCEPT !.sdi = TestedArray]
    IN  IF e # NoErr THEN StageRaise(o, e.exc, e.at)
        ELSE IF o.gsdi # None
        THEN StageRaise(first, "AttributeError", "surr.shape")
        ELSE StageDone(first)

\* the shapes of the matrices and timeseries given to the constructor
MtxShapes == {<<MinN, MinN>>, <<MinN, MinN + 1>>, <<MinN + 1, MinN>>}

TsShapes ==
    {<<n>> : n \in {MinN, MinN + 1}} \cup
    {<<n, MinT>> : n \in {MinN, MinN + 1}} \cup
    {<<n, MinT, MaxSubj>> : n \in {MinN, MinN + 1}} \cup
    {<<n, MinT, MaxSubj, 2>> : n \in {MinN, MinN + 1}}

InitStages ==
    /\ pc = "no object"
    /\ self = None
    /\ mtx = None
    /\ gsdi = None
    /\ sc_fn = None
    /\ lapl_mtx = None
    /\ solver = None
    /\ history = None
    /\ eigenvec = None
    /\ timeseries = None
    /\ energy = None
    /\ index = None
    /\ split_arg = None
    /\ freq_idx = None
    /\ keys = None
    /\ evec_split = None
    /\ ts_split = None
    /\ sdi_keys = None
    /\ sdi = None
    /\ SigIdle
    /\ SignIdle
    /\ err = NoErr

\* what no method of the object touches
StageFrame ==
    UNCHANGED <<eigenvec, energy, index, freq_idx, keys,
                evec_split, ts_split, sdi_keys, sdi, sigVars, signVars,
                lapl_mtx, solver, history, gsdi>>

\* the method returned or raised: r is its outcome
Called(stage, r) ==
    /\ pc' = stage
    /\ self' = IF r.self = None THEN None ELSE Some(r.self)
    /\ err' = r.err
    /\ UNCHANGED <<mtx, timeseries>>
    /\ StageFrame

Construct ==
    /\ pc = "no object"
    /\ \E m \in MtxShapes, ts \in TsShapes :
          LET r == SCGraph_init(m, ts)
          IN  /\ pc' = IF r.err = NoErr THEN "SCGraph" ELSE "rejected"
              /\ self' = r.self
              /\ err' = r.err
              /\ mtx' = Some(m)
              /\ timeseries' = Some(ts)
    /\ UNCHANGED <<split_arg, sc_fn>>
    /\ StageFrame

Exists == self # None /\ pc \notin {"no object", "rejected"}

SymmetricNormalisedLaplacian ==
    /\ Exists
    /\ Called("symmetric_normalised_laplacian",
              SCGraph_symmetric_normalised_laplacian(self[1]))
    /\ UNCHANGED <<split_arg, sc_fn>>

Decomposition ==
    /\ Exists
    /\ Called("decomposition", SCGraph_decomposition(self[1]))
    /\ UNCHANGED <<split_arg, sc_fn>>

ComputeGraphEnergyStage ==
    /\ Exists
    /\ \E mean \in BOOLEAN :
          Called("compute_graph_energy",
                 SCGraph_compute_graph_energy(self[1], mean))
    /\ UNCHANGED <<split_arg, sc_fn>>

SplitGraphStage ==
    /\ Exists
    /\ \E arg \in {NoIdx, MedianIdx, OtherIdx} \cup
                  {IntIdx(f) : f \in 0..self[1].mtx[1]},
          med \in 1..(self[1].mtx[1] - 1) :
          /\ (arg.kind \in {"int", "other"} => med = 1)
          /\ Called("split_graph", SCGraph_split_graph(self[1], arg, med))
          /\ split_arg' = Some(arg)
    /\ UNCHANGED sc_fn

ComputeSdi ==
    /\ Exists
    /\ Called("compute_sdi", SCGraph_compute_sdi(self[1]))
    /\ UNCHANGED <<split_arg, sc_fn>>

ComputeGsdi ==
    /\ Exists
    /\ Called("compute_gsdi", SCGraph_compute_gsdi(self[1]))
    /\ UNCHANGED <<split_arg, sc_fn>>

CreateSurrogates ==
    /\ Exists
    /\ \E sc_type \in {"informed", "uninformed", "other"} :
          /\ Called("create_surrogates",
                    SCGraph_create_surrogates(self[1], sc_type))
          /\ sc_fn' = Some(sc_type)
    /\ UNCHANGED split_arg

TestSignificanceStage ==
    /\ Exists
    /\ Called("test_significance", SCGraph_test_significance(self[1]))
    /\ UNCHANGED <<split_arg, sc_fn>>

NextStages ==
    \/ Construct
    \/ SymmetricNormalisedLaplacian
    \/ Decomposition
    \/ ComputeGraphEnergyStage
    \/ SplitGraphStage
    \/ ComputeSdi
    \/ ComputeGsdi
    \/ CreateSurrogates
    \/ TestSignificanceStage

SpecStages == InitStages /\ [][NextStages]_vars

(***************************************************************************)
(* metrics.gsdi as a function of the split bundle                          *)
(***************************************************************************)
MaxBands == 3

\* band names: one is part of another one, one is part of "_and_"
BandNames == {<<"l">>, <<"h">>, <<"m">>, <<"l", "o">>, <<"a">>}

\* the lists of n different names
NameLists(n) ==
    {ks \in [1..n -> BandNames] : \A a, b \in 1..n : a # b => ks[a] # ks[b]}

\* the timeseries of band i: 2 nodes, 1 timepoint
BandArray(i, v) == [r \in 1..2 |-> <<i + r + v>>]

InitGsdi ==
    /\ pc = "bundle"
    /\ \E n \in 2..MaxBands : \E ks \in NameLists(n) : \E v \in 0..1 :
          ts_split = Some([i \in 1..n |-> [key |-> ks[i], val |-> BandArray(i, v)]])
    /\ gsdi = None
    /\ self = None
    /\ mtx = None
    /\ sc_fn = None
    /\ lapl_mtx = None
    /\ solver = None
    /\ history = None
    /\ eigenvec = None
    /\ timeseries = None
    /\ energy = None
    /\ index = None
    /\ split_arg = None
    /\ freq_idx = None
    /\ keys = None
    /\ evec_split = None
    /\ sdi_keys = None
    /\ sdi = None
    /\ SigIdle
    /\ SignIdle
    /\ err = NoErr

\* the second call is made on dictionaries of at most this many entries
\* (a dictionary of three bands has six entries after the first call, and
\* sixty-two after the second)
MaxKeysAgain == 4

\* operations.gsdi(ts_split) / SCGraph.compute_gsdi(), called once or twice
\* on the same dictionary; the call, the bundle it was given and the result
\* of the call before it join history
GsdiCall ==
    /\ \/ pc = "bundle"
       \/ pc = "gsdi" /\ Len(ts_split[1]) <= MaxKeysAgain
    /\ LET r == gsdi_fn(ts_split[1])
       IN  /\ gsdi' = r.gsdi
           /\ ts_split' = r.ts_split
           /\ err' = r.err
    /\ history' = (IF pc = "bundle" THEN <<>> ELSE history)
                      \o <<[fn |-> "gsdi", ts_split |-> ts_split[1],
                            earlier |-> gsdi]>>
    /\ pc' = IF pc = "bundle" THEN "gsdi" ELSE "gsdi again"
    /\ UNCHANGED <<eigenvec, timeseries, energy, index, split_arg, freq_idx,
                   keys, evec_split, sdi_keys, sdi, sigVars, signVars,
                   sc_fn, lapl_mtx, solver, self, mtx>>

NextGsdi == GsdiCall

SpecGsdi == InitGsdi /\ [][NextGsdi]_vars

(***************************************************************************)
(* laplacian.compute_laplacian as a function of its arguments              *)
(***************************************************************************)
LaplN == 2
MaxWeight == 1

\* square matrices: d on the diagonal, u above it, l below it, and c in
\* the corner of the first row
MtxInputs ==
    {[i \in 1..LaplN |-> [j \in 1..LaplN |->
        IF i = 1 /\ j = LaplN THEN c
        ELSE IF i = j THEN d ELSE IF i < j THEN u ELSE l]] :
        d \in (0 - 1)..MaxWeight, u \in (0 - 1)..MaxWeight,
        l \in (0 - 1)..MaxWeight, c \in (0 - 1)..MaxWeight}

NegvalInputs == {"absolute", "remove", "rescale", "random"}

SelfloopsInputs ==
    {LoopsFalse, LoopsTrue, LoopsDegree, LoopsOther,
     LoopsArray(1, [i \in 1..LaplN |-> i + 1]),
     LoopsArray(1, [i \in 1..(LaplN + 1) |-> i]),
     LoopsArray(2, <<<<1>>>>)}

InitLapl ==
    /\ pc = "matrix"
    /\ mtx \in {Some(m) : m \in MtxInputs}
    /\ history = <<>>
    /\ lapl_mtx = None
    /\ gsdi = None
    /\ self = None
    /\ sc_fn = None
    /\ solver = None
    /\ eigenvec = None
    /\ timeseries = None
    /\ energy = None
    /\ index = None
    /\ split_arg = None
    /\ freq_idx = None
    /\ keys = None
    /\ evec_split = None
    /\ ts_split = None
    /\ sdi_keys = None
    /\ sdi = None
    /\ SigIdle
    /\ SignIdle
    /\ err = NoErr

\* operations.compute_laplacian(mtx, negval, selfloops); the call joins history
ComputeLaplacianCall ==
    /\ pc = "matrix"
    /\ \E negval \in NegvalInputs, selfloops \in SelfloopsInputs :
          LET r == compute_laplacian(mtx[1], negval, selfloops)
          IN  /\ lapl_mtx' = r.lapl
              /\ err' = r.err
              /\ history' = <<[fn |-> "compute_laplacian", negval |-> negval,
                               selfloops |-> selfloops, degree |-> r.degree,
                               adjacency |-> r.adjacency]>>
    /\ pc' = "compute_laplacian"
    /\ UNCHANGED <<eigenvec, timeseries, energy, index, split_arg, freq_idx,
                   keys, evec_split, ts_split, sdi_keys, sdi, sigVars,
                   signVars, sc_fn, solver, self, mtx, gsdi>>

NextLapl == ComputeLaplacianCall

SpecLapl == InitLapl /\ [][NextLapl]_vars

(***************************************************************************)
(* laplacian.decomposition as a function of what np.linalg.eig answers     *)
(***************************************************************************)
DecompN == 3
MaxEigval == 2

\* the answers of np.linalg.eig: real eigenvalues in any order, ties
\* included, and one eigenvector per column
EigAnswers ==
    UNION {{[val |-> v, vec |-> m] :
               v \in [1..n -> 0..MaxEigval],
               m \in {SignedPerm(n), Counting(n), Identity(n)}} :
           n \in 2..DecompN}

InitDecomp ==
    /\ pc = "eig"
    /\ solver \in {Some(ans) : ans \in EigAnswers}
    /\ history = <<>>
    /\ eigenvec = None
    /\ mtx = None
    /\ lapl_mtx = None
    /\ gsdi = None
    /\ self = None
    /\ sc_fn = None
    /\ timeseries = None
    /\ energy = None
    /\ index = None
    /\ split_arg = None
    /\ freq_idx = None
    /\ keys = None
    /\ evec_split = None
    /\ ts_split = None
    /\ sdi_keys = None
    /\ sdi = None
    /\ SigIdle
    /\ SignIdle
    /\ err = NoErr

\* operations.decomposition(mtx): np.argsort may return any order that
\* sorts the eigenvalues
DecompositionCall ==
    /\ pc = "eig"
    /\ \E idx \in ArgsortOrders(solver[1].val) :
          LET r == decomposition(solver[1], idx)
          IN  /\ eigenvec' = Some(r.eigenvec)
              /\ history' = <<[fn |-> "decomposition", eigenval |-> r.eigenval]>>
    /\ pc' = "decomposition"
    /\ UNCHANGED <<timeseries, energy, index, split_arg, freq_idx, keys,
                   evec_split, ts_split, sdi_keys, sdi, sigVars, signVars,
                   sc_fn, lapl_mtx, solver, self, mtx, gsdi, err>>

NextDecomp == DecompositionCall

SpecDecomp == InitDecomp /\ [][NextDecomp]_vars

(***************************************************************************)
(* laplacian.normalisation, symmetric_normalised_laplacian and             *)
(* recomposition as functions of their arguments                           *)
(***************************************************************************)
NormN == 3
MaxOff == 1

\* symmetric connectivity of n nodes: weight a between the first two nodes,
\* weight b between the last node and every other one
ConnInputs(n) ==
    {[i \in 1..n |-> [j \in 1..n |->
        IF i = j THEN 0
        ELSE IF i = n \/ j = n THEN b
        ELSE IF i <= 2 /\ j <= 2 THEN a ELSE 0]] :
        a \in (0 - 1)..MaxOff, b \in (0 - 1)..MaxOff}

\* a degree, a normalisation factor or eigenvalues: a vector, or a square
\* matrix with x and y off the diagonal of its first row
DiagInputs(n) ==
    {[ndim |-> 1, arr |-> [i \in 1..n |-> v + i - 1]] : v \in 0..MaxOff}
    \cup {[ndim |-> 2,
           arr |-> [i \in 1..n |-> [j \in 1..n |->
                       IF i = j THEN v + i - 1
                       ELSE IF i = 1 /\ j = 2 THEN x
                       ELSE IF i = 1 /\ j = n THEN y ELSE 0]]] :
            v \in 0..MaxOff, x \in (0 - MaxOff)..MaxOff,
            y \in (0 - MaxOff)..MaxOff}

NormInputs == {"symmetric", "rw", "rwo", "max"}

InitNorm ==
    /\ pc = "laplacian"
    /\ mtx \in UNION {{Some(m) : m \in ConnInputs(n)} : n \in 2..NormN}
    /\ history = <<>>
    /\ lapl_mtx = None
    /\ solver = None
    /\ eigenvec = None
    /\ gsdi = None
    /\ self = None
    /\ sc_fn = None
    /\ timeseries = None
    /\ energy = None
    /\ index = None
    /\ split_arg = None
    /\ freq_idx = None
    /\ keys = None
    /\ evec_split = None
    /\ ts_split = None
    /\ sdi_keys = None
    /\ sdi = None
    /\ SigIdle
    /\ SignIdle
    /\ err = NoErr

\* what a call of the three functions leaves alone; the result is kept in
\* lapl_mtx and the call joins history
NormFrame ==
    UNCHANGED <<eigenvec, timeseries, energy, index, split_arg, freq_idx,
                keys, evec_split, ts_split, sdi_keys, sdi, sigVars, signVars,
                sc_fn, solver, self, mtx, gsdi>>

\* operations.normalisation(lapl, degree, norm, fix_zeros)
NormalisationCall ==
    /\ pc = "laplacian"
    /\ \E n \in 2..NormN :
          \E degree \in DiagInputs(n), norm \in NormInputs,
             fix_zeros \in BOOLEAN :
              LET r == normalisation(mtx[1], degree, norm, fix_zeros)
              IN  /\ lapl_mtx' = r.out
                  /\ err' = r.err
                  /\ history' = <<[fn |-> "normalisation", d |-> Some(degree),
                                   norm |-> norm, fix_zeros |-> fix_zeros]>>
    /\ pc' = "normalised"
    /\ NormFrame

\* operations.symmetric_normalised_laplacian(mtx, d, fix_zeros)
SymmetricNormalisedLaplacianCall ==
    /\ pc = "laplacian"
    /\ \E n \in 2..NormN :
          \E d \in {None} \cup {Some(x) : x \in DiagInputs(n)},
             fix_zeros \in BOOLEAN :
              LET r == symmetric_normalised_laplacian(mtx[1], d, fix_zeros)
              IN  /\ lapl_mtx' = r.out
                  /\ err' = r.err
                  /\ history' = <<[fn |-> "symmetric_normalised_laplacian",
                                   d |-> d, norm |-> "symmetric",
                                   fix_zeros |-> fix_zeros]>>
    /\ pc' = "normalised"
    /\ NormFrame

\* operations.recomposition(eigenval, eigenvec), mtx being the eigenvectors
RecompositionCall ==
    /\ pc = "laplacian"
    /\ \E n \in 2..NormN :
          \E eigenval \in DiagInputs(n) :
              LET r == recomposition(eigenval, [ndim |-> 2, arr |-> mtx[1]])
              IN  /\ lapl_mtx' = r.out
                  /\ err' = r.err
                  /\ history' = <<[fn |-> "recomposition",
                                   d |-> Some(eigenval), norm |-> "none",
                                   fix_zeros |-> FALSE]>>
    /\ pc' = "normalised"
    /\ NormFrame

NextNorm ==
    \/ NormalisationCall
    \/ SymmetricNormalisedLaplacianCall
    \/ RecompositionCall

SpecNorm == InitNorm /\ [][NextNorm]_vars

(***************************************************************************)
(* Properties of graph_filter                                              *)
(***************************************************************************)
Col(m, c) == [r \in 1..NRows(m) |-> m[r][c]]

ZeroCol(n) == [r \in 1..n |-> 0]

RECURSIVE SumBands(_, _)
SumBands(d, n) ==
    IF n = 1 THEN d[1].val ELSE MatAdd(SumBands(d, n - 1), d[n].val)

Returned == pc \in {"graph_filter", "split_graph"} /\ err = NoErr

\* C1: when graph_filter returns, every band has the shape of eigenvec,
\* every column of eigenvec is kept by exactly one band and zero in all the
\* others, and the bands add up to eigenvec.
C1_BandsPartitionModes ==
    Returned =>
        LET d == evec_split[1]
            n == NRows(eigenvec)
        IN  /\ \A b \in 1..Len(d) : NRows(d[b].val) = n /\ NCols(d[b].val) = n
            /\ \A c \in 1..n :
                  \E b \in 1..Len(d) :
                      /\ Col(d[b].val, c) = Col(eigenvec, c)
                      /\ Col(eigenvec, c) # ZeroCol(n)
                      /\ \A o \in 1..Len(d) :
                            o # b => Col(d[o].val, c) = ZeroCol(n)
            /\ SumBands(d, Len(d)) = eigenvec
            /\ Len(d) = Len(change_var_type_list(freq_idx[1])) + 1

\* a call with a list of two cutoffs that returned three bands
C1_Witness ==
    /\ pc = "graph_filter"
    /\ err = NoErr
    /\ freq_idx[1].kind = "list"
    /\ Len(evec_split[1]) = 3
    /\ eigenvec = Counting(4)

\* C4 as claimed: every cutoff outside 1..N-2 makes graph_filter raise
\* IndexError and produce no split.
C4_OutsideCutoffRaises ==
    (/\ pc = "graph_filter"
     /\ \E n \in 1..Len(change_var_type_list(freq_idx[1])) :
           change_var_type_list(freq_idx[1])[n] \notin 1..(NRows(eigenvec) - 2))
    => (err.exc = "IndexError" /\ evec_split = None)

(***************************************************************************)
(* Properties of median_cutoff_frequency_idx                               *)
(***************************************************************************)
IsExampleEnergy == energy[1].ndim = 2 /\ energy[1].arr = ExampleEnergy

\* the 1-D energy the function works on
Energy1D == IF energy[1].ndim = 2 THEN MeanLastAxis(energy[1].arr)
            ELSE energy[1].arr

\* twice the trapezoidal area of e over the modes 0..k
AreaUpTo(e, k) == Trapz2(SubSeq(e, 1, k + 1))

CutoffReturned == pc = "median_cutoff" /\ err = NoErr

\* C2 as claimed: the result is the smallest k >= 1 whose area over the
\* modes [0, k] reaches half of the total area.
C2_SmallestOverZeroToK ==
    CutoffReturned =>
        LET e == Energy1D
            k == index[1]
        IN  /\ k >= 1
            /\ 2 * AreaUpTo(e, k) >= AreaUpTo(e, Len(e) - 1)
            /\ \A j \in 1..(k - 1) :
                  2 * AreaUpTo(e, j) < AreaUpTo(e, Len(e) - 1)

\* C2 amended: for N >= 2 modes the result is the smallest k in 1..N-1
\* whose area over the modes [0, k-1] reaches half of the total area, N-1
\* when there is none; the call fails for N < 2; the energy of the unit
\* test gives 2.
C2_SmallestOverZeroToKMinusOne ==
    /\ pc = "median_cutoff" => (err = NoErr <=> Len(Energy1D) >= 2)
    /\ CutoffReturned =>
          LET e == Energy1D
              k == index[1]
              half == {j \in 1..(Len(e) - 1) :
                          2 * AreaUpTo(e, j - 1) >= AreaUpTo(e, Len(e) - 1)}
          IN  /\ k \in 1..(Len(e) - 1)
              /\ half # {} => (k \in half /\ \A j \in half : k <= j)
              /\ half = {} => k = Len(e) - 1
              /\ IsExampleEnergy => k = 2

\* the energy of the unit test was given and 2 was returned
C2_Witness ==
    /\ CutoffReturned
    /\ IsExampleEnergy
    /\ index = Some(2)

\* C3 as claimed: with N >= 3 modes and a non-negative energy,
\* split_graph('median') gets a cutoff strictly inside (0, N-1) and does
\* not fail.
C3_MedianSplitNeverDegenerate ==
    (/\ pc = "split_graph"
     /\ split_arg = Some(MedianIdx)
     /\ energy # None
     /\ NRows(eigenvec) >= 3)
    => (/\ err = NoErr
        /\ index # None
        /\ index[1] > 0
        /\ index[1] < NRows(eigenvec) - 1)

(***************************************************************************)
(* Properties of sdi                                                       *)
(***************************************************************************)
\* the bundle has exactly two bands, named low and high in any case
LowHighBundle(d) ==
    /\ Len(d) = 2
    /\ {Lower(d[1].key), Lower(d[2].key)} = {"low", "high"}

BandNamed(d, name) == d[CHOOSE n \in 1..Len(d) : Lower(d[n].key) = name].val

\* the keys argument is absent or lists the two keys in either order
BothKeys(d, karg) ==
    \/ karg = None
    \/ karg = Some(<<d[1].key, d[2].key>>)
    \/ karg = Some(<<d[2].key, d[1].key>>)

\* C5: on a low/high bundle sdi is log2(norm(high) / norm(low)) per node,
\* whatever the order and the case of the keys.
C5_SdiHighOverLow ==
    (/\ pc = "sdi"
     /\ LowHighBundle(ts_split[1])
     /\ BothKeys(ts_split[1], sdi_keys))
    => (/\ err = NoErr
        /\ sdi # None
        /\ Len(sdi[1]) = NRows(timeseries)
        /\ \A r \in 1..Len(sdi[1]) :
              sdi[1][r] =
                  LogRatio(NormSqAxis1(BandNamed(ts_split[1], "high"))[r],
                           NormSqAxis1(BandNamed(ts_split[1], "low"))[r]))

\* sdi was computed from a bundle whose first key is HIGH, the two norms
\* of node 1 being different
C5_Witness ==
    /\ pc = "sdi"
    /\ err = NoErr
    /\ ts_split # None
    /\ DictKeys(ts_split[1]) = <<"HIGH", "LOW">>
    /\ sdi_keys = None
    /\ sdi[1][1].num # sdi[1][1].den
    /\ sdi[1][1].class = "finite"

\* C6 as claimed: sdi of a bundle produced by graph_filter from the
\* eigenvectors of a graph (here the graph without edges, all nodes
\* isolated) is finite for every node.
C6_SdiFinite ==
    (/\ pc = "sdi"
     /\ err = NoErr
     /\ eigenvec = Identity(NRows(eigenvec)))
    => (/\ Len(sdi[1]) = NRows(eigenvec)
        /\ \A r \in 1..Len(sdi[1]) : sdi[1][r].class = "finite")


(***************************************************************************)
(* Properties of test_significance                                         *)
(***************************************************************************)
SigReturned == pc = "tested" /\ err = NoErr

\* the ensemble the test ran on
Tested == WithData(surr, data)

TestedLen == ShapeOf(Tested)[Tested.ndim]

\* the entries of the mask: one per observation, or per observation and subject
Entries ==
    IF Tested.ndim = 2 THEN {<<r>> : r \in 1..Len(Tested.arr)}
    ELSE {<<r, u>> : r \in 1..Len(Tested.arr), u \in 1..Len(Tested.arr[1])}

At(x, e) == IF Len(e) = 1 THEN x[e[1]] ELSE x[e[1]][e[2]]

\* how many surrogates of entry e are below / not above the empirical value
Below(e) ==
    LET v == At(Tested.arr, e)
    IN  Cardinality({c \in 1..(Len(v) - 1) : v[c] < v[Len(v)]})

NotAbove(e) ==
    LET v == At(Tested.arr, e)
    IN  Cardinality({c \in 1..(Len(v) - 1) : v[c] <= v[Len(v)]})

\* floor(n * p_eff) + 1 with p_eff = q/2, or 1/(n+1) when q/2 < 1/(n+1)
TailWidth(n, q) ==
    IF q.num * (n + 1) < 2 * q.den THEN n \div (n + 1) + 1
    ELSE (n * q.num) \div (2 * q.den) + 1

\* C7: with method 'frequentist' an entry is flagged exactly when the
\* position of the empirical value in the ascending order of the n+1 values
\* is among the lowest or the highest floor(n * p_eff) + 1 positions, p_eff
\* being p/2 or 1/(n+1) when that is larger; with 4 surrogates and p = 0.4
\* a strict minimum or maximum is flagged and a median is not.
C7_FrequentistTails ==
    (SigReturned /\ method = "frequentist") =>
        LET n == TestedLen - 1
            k == TailWidth(n, p)
        IN  \A e \in Entries :
                LET pos == At(real_pos[1], e)
                    flag == At(stat_mask[1], e)
                IN  /\ Below(e) <= pos
                    /\ pos <= NotAbove(e)
                    /\ flag <=> (pos < k \/ pos >= n + 1 - k)
                    /\ (n = 4 /\ p = Frac(2, 5)) =>
                          /\ (NotAbove(e) = 0 \/ Below(e) = 4) => flag
                          /\ (Below(e) = 2 /\ NotAbove(e) = 2) => ~flag

C7_Witness ==
    /\ SigReturned
    /\ method = "frequentist"
    /\ TestedLen = 5
    /\ p = Frac(2, 5)
    /\ \E e \in Entries : NotAbove(e) = 0 /\ At(stat_mask[1], e)
    /\ \E e \in Entries :
          Below(e) = 2 /\ NotAbove(e) = 2 /\ ~At(stat_mask[1], e)

\* the p that the Bernoulli method uses at the subject level
SubjectP == IF p_bernoulli = None THEN Frac(1, 10) ELSE p

\* C8: the per-subject hits that the Bernoulli method counts are exactly the
\* entries that method 'frequentist' flags for the same ensemble and the
\* same subject-level p.
C8_BernoulliHitsAreFrequentist ==
    (SigReturned /\ method = "Bernoulli" /\ thr # None) =>
        hits[1] = test_significance(surr, data, "frequentist", SubjectP, None,
                                    real_pos[1]).stat_mask[1]

\* the group step of the Bernoulli method ran
GroupTested ==
    /\ SigReturned
    /\ method = "Bernoulli"
    /\ Tested.ndim = 3
    /\ Len(Tested.arr[1]) > 1

HitCount(r) ==
    Cardinality({u \in 1..Len(hits[1][r]) : hits[1][r][u]})

\* the x in 0..99 with P(X > x) < b / nreg for X ~ Binomial(100, q)
TailBelow(q, b, nreg) ==
    LET tail == BinomTailPpm(q)
    IN  {x \in 0..99 : tail[x + 1] * b.den * nreg < b.num * 1000000}

\* the mask is regions x subjects, the same for all subjects of a region,
\* True where the hits of the region exceed the threshold scaled from x
MaskFromX(xs) ==
    LET nreg == Len(Tested.arr)
        nsubj == Len(Tested.arr[1])
    IN  /\ xs # {}
        /\ Len(stat_mask[1]) = nreg
        /\ \A r \in 1..nreg :
              /\ Len(stat_mask[1][r]) = nsubj
              /\ \A u \in 1..nsubj :
                    stat_mask[1][r][u] <=>
                        \E x \in xs :
                            /\ \A y \in xs : x <= y
                            /\ HitCount(r) > (nsubj * x) \div 100 + 1

EffectiveP ==
    LET q == IF p_bernoulli = None THEN Frac(1, 10) ELSE p
    IN  IF q.num * TestedLen < q.den THEN Frac(1, TestedLen) ELSE q

EffectivePb ==
    LET b == IF p_bernoulli = None THEN p ELSE p_bernoulli[1]
        nsubj == Len(Tested.arr[1])
    IN  IF b.num * nsubj < b.den THEN Frac(1, nsubj) ELSE b

SignReturned2D ==
    /\ pc = "random_sign"
    /\ err = NoErr
    /\ eigenvec.ndim = 2

\* the k-th vector of signs drawn from the generator
DrawnSigns(k) ==
    r_sign(rng[1], (k - 1) * Len(eigenvec.arr), Len(eigenvec.arr))

\* C10 as stated: surrogate k is V with the entries of node (row) i
\* multiplied by the i-th sign of the k-th draw, and no absolute value
\* changes.
C10_OneSignPerNode ==
    SignReturned2D =>
        \A k \in 1..n_surr, i \in 1..Len(eigenvec.arr) :
            \A j \in 1..Len(eigenvec.arr[i]) :
                /\ rand_evec[1].arr[i][j][k]
                      = eigenvec.arr[i][j] * DrawnSigns(k)[i]
                /\ Abs(rand_evec[1].arr[i][j][k]) = Abs(eigenvec.arr[i][j])

\* C10 (amended): for a square V, surrogate k is V with eigenvector
\* (column) j multiplied by the j-th sign of the k-th draw, one sign per
\* eigenvector and the same for all nodes, stored in single precision:
\* every absolute value is that of V rounded to float32.
C10_OneSignPerEigenvector ==
    (SignReturned2D /\ Len(eigenvec.arr[1]) = Len(eigenvec.arr)) =>
        \A k \in 1..n_surr, i \in 1..Len(eigenvec.arr) :
            \A j \in 1..Len(eigenvec.arr[i]) :
                /\ rand_evec[1].arr[i][j][k]
                      = Float32(eigenvec.arr[i][j] * DrawnSigns(k)[j])
                /\ Abs(rand_evec[1].arr[i][j][k])
                      = Abs(Float32(eigenvec.arr[i][j]))

C10_Witness ==
    /\ SignReturned2D
    /\ Len(eigenvec.arr[1]) = Len(eigenvec.arr)
    /\ \E k \in 1..n_surr, i \in 1..Len(eigenvec.arr) :
          \E j \in 1..Len(eigenvec.arr) :
              /\ DrawnSigns(k)[i] # DrawnSigns(k)[j]
              /\ eigenvec.arr[i][j] # 0
              /\ rand_evec[1].arr[i][j][k]
                    = eigenvec.arr[i][j] * DrawnSigns(k)[j]


(***************************************************************************)
(* Properties of sc_informed and sc_uninformed                             *)
(***************************************************************************)
SurrReturned == pc = "surrogates made" /\ err = NoErr

InformedOrthonormal ==
    /\ SurrReturned
    /\ sc_fn = "sc_informed"
    /\ NCols(eigenvec.arr) = NRows(eigenvec.arr)
    /\ MatMul(Transpose(eigenvec.arr), eigenvec.arr)
          = Identity(NRows(eigenvec.arr))

\* the number of slices along the last axis of the ensemble
SurrCount == IF stack THEN n_surr + 1 ELSE n_surr

\* the subjects of the timeseries (one for a 2-D timeseries)
Subjects == IF timeseries.ndim = 3 THEN 1..Len(timeseries.arr[1][1]) ELSE {1}

\* the nodes x timepoints of subject u, of the data and of surrogate k
DataPlane(u) ==
    IF timeseries.ndim = 3 THEN Subject(timeseries.arr, u) ELSE timeseries.arr

SurrPlane(u, k) ==
    [i \in 1..Len(surr[1].arr) |-> [t \in 1..Len(surr[1].arr[i]) |->
        IF timeseries.ndim = 3 THEN surr[1].arr[i][t][u][k]
        ELSE surr[1].arr[i][t][k]]]

\* the graph Fourier coefficients of a plane with respect to eigenvec
Coefficients(plane) == MatMul(Transpose(eigenvec.arr), plane)

\* a^2 = b^2 entry by entry, written as |a| = |b|
SameEnergy(a, b) ==
    \A m \in 1..NRows(a) : \A t \in 1..NCols(a) :
        Abs(a[m][t]) = Abs(b[m][t])

Representable(plane) ==
    \A i \in 1..NRows(plane) : \A t \in 1..NCols(plane) :
        Float32(plane[i][t]) = plane[i][t]

\* the signs of surrogate k: drawn, or all +1 for the stacked slice
SurrSigns(k) ==
    IF k > n_surr THEN [j \in 1..Len(eigenvec.arr) |-> 1] ELSE DrawnSigns(k)

\* V S_k V^T x in exact arithmetic
ExactSurrogate(u, k) ==
    MatMul(TimesLastAxis(eigenvec.arr, SurrSigns(k)),
           Coefficients(DataPlane(u)))

RECURSIVE ShapeN(_, _)
\* the shape of an array of nd axes (only its last axis may be empty)
ShapeN(arr, nd) ==
    IF nd = 0 THEN <<>>
    ELSE IF Len(arr) = 0 THEN <<0>>
    ELSE <<Len(arr)>> \o ShapeN(arr[1], nd - 1)

RECURSIVE LastAxis(_, _, _)
\* arr[..., k - 1] of an array of nd axes
LastAxis(arr, nd, k) ==
    IF nd = 1 THEN arr[k]
    ELSE [i \in 1..Len(arr) |-> LastAxis(arr[i], nd - 1, k)]

RECURSIVE InFloat32(_, _)
\* an array of nd axes stored in a float32 array
InFloat32(arr, nd) ==
    IF nd = 0 THEN Float32(arr)
    ELSE [i \in 1..Len(arr) |-> InFloat32(arr[i], nd - 1)]

\* the un-randomised eigenvectors of the call: the argument of random_sign
\* and sc_informed, the sorted eigenvectors of conf_lapl for sc_uninformed
Bases ==
    IF eigenvec # None THEN {eigenvec}
    ELSE {[ndim |-> 2,
           arr |-> decomposition(solver[1].conf_lapl, idx).eigenvec] :
              idx \in ArgsortOrders(solver[1].conf_lapl.val)}

\* graph_fourier_transform(fourier_coeff, eigenvec.T)
Reprojection(V) ==
    graph_fourier_transform_nd(
        graph_fourier_transform_nd(timeseries, V.arr).val,
        Transpose(V.arr)).val

RandEvecShape(V) ==
    rand_evec # None =>
        /\ ShapeN(rand_evec[1].arr, rand_evec[1].ndim)
              = ShapeN(V.arr, V.ndim) \o <<SurrCount>>
        /\ stack => LastAxis(rand_evec[1].arr, rand_evec[1].ndim, SurrCount) = V.arr

SurrShape ==
    ShapeN(surr[1].arr, surr[1].ndim)
        = ShapeN(timeseries.arr, timeseries.ndim) \o <<SurrCount>>

Upstream(stage) ==
    IF stage = "decomposition" THEN {"lapl_mtx"}
    ELSE IF stage = "compute_graph_energy" THEN {"lapl_mtx", "eigenvec"}
    ELSE IF stage = "split_graph" THEN {"lapl_mtx", "eigenvec", "energy"}
    ELSE IF stage \in {"compute_sdi", "compute_gsdi"}
    THEN {"lapl_mtx", "eigenvec", "energy", "ts_split"}
    ELSE IF stage = "create_surrogates"
    THEN {"lapl_mtx", "eigenvec", "energy", "ts_split"}
    ELSE IF stage = "test_significance"
    THEN {"lapl_mtx", "eigenvec", "energy", "ts_split", "surr"}
    ELSE {}

\* the index split_graph works with in this step
SplitIndex == IF split_arg'[1].kind = "none" THEN self[1].index ELSE split_arg'[1]

\* the fields that the code of a stage reads in this step
Reads(stage) ==
    IF stage = "decomposition" THEN {"lapl_mtx"}
    ELSE IF stage = "compute_graph_energy" THEN {"eigenvec"}
    ELSE IF stage = "split_graph"
    THEN (IF SplitIndex.kind = "median" THEN {"eigenvec", "energy"}
          ELSE {"eigenvec"})
    ELSE IF stage \in {"compute_sdi", "compute_gsdi"} THEN {"ts_split"}
    ELSE IF stage = "create_surrogates"
    THEN (IF sc_fn' = Some("informed") THEN {"eigenvec"}
          ELSE IF sc_fn' = Some("uninformed") THEN {"lapl_mtx"} ELSE {})
    ELSE IF stage = "test_significance" THEN {"surr", "eigenvec"}
    ELSE {}

\* the step is a call of a stage method on the object
StageCall == self # None /\ self' # None

TestedDict == Some("tested dict")

\* C15: once surrogates exist, SCGraph.test_significance completes and
\* replaces every populated metric by its tested version: sdi when sdi is
\* populated, gsdi when gsdi is populated.
C15_TestedMetricsReplaced ==
    (/\ pc = "test_significance"
     /\ self[1].surr # None
     /\ self[1].eigenvec # None
     /\ self[1].index.kind = "int")
        => /\ err = NoErr
           /\ self[1].sdi # None => self[1].sdi = TestedArray
           /\ self[1].gsdi # None => self[1].gsdi = TestedDict

(***************************************************************************)
(* Properties of the SCGraph constructor                                   *)
(***************************************************************************)
Constructed == pc \notin {"no object"}

\* the ValueError of the first check that fails, if one fails
Rejected(at) == self = None /\ err = [exc |-> "ValueError", at |-> at]

\* C20: the constructor raises ValueError and creates no object when the
\* matrix is not square, else when timeseries.shape[0] is not the number of
\* nodes, else when the timeseries has more than 3 dimensions; an object
\* that exists has a square mtx of the size of timeseries.shape[0] and a
\* timeseries of at most 3 dimensions.
C20_ConstructorValidates ==
    Constructed =>
        LET m == mtx[1]
            ts == timeseries[1]
        IN  /\ m[2] # m[1] => Rejected("square")
            /\ (m[2] = m[1] /\ m[2] # ts[1]) => Rejected("parcels")
            /\ (m[2] = m[1] /\ m[2] = ts[1] /\ Len(ts) > 3)
                  => Rejected("dimensions")
            /\ (m[2] = m[1] /\ m[2] = ts[1] /\ Len(ts) <= 3) => self # None
            /\ self # None =>
                  /\ self[1].mtx = m
                  /\ self[1].timeseries = ts
                  /\ self[1].mtx[1] = self[1].mtx[2]
                  /\ self[1].mtx[2] = self[1].timeseries[1]
                  /\ Len(self[1].timeseries) <= 3

\* three checks would fail, and the first one raised
C20_Witness ==
    /\ pc = "rejected"
    /\ mtx[1][1] # mtx[1][2]
    /\ mtx[1][2] # timeseries[1][1]
    /\ Len(timeseries[1]) > 3
    /\ Rejected("square")

(***************************************************************************)
(* Properties of gsdi                                                      *)
(***************************************************************************)
GsdiReturned == pc = "gsdi" /\ err = NoErr

\* the bundle that was given to gsdi and the names of its bands
Bundle == history[1].ts_split
Bands == DictKeys(Bundle)

\* the combinations of 2 .. n-1 bands, as sequences of positions
BandCombinations ==
    {c \in UNION {[1..m -> 1..Len(Bands)] : m \in 2..(Len(Bands) - 1)} :
        \A a \in 1..(Len(c) - 1) : c[a] < c[a + 1]}

ComboNames(c) == [a \in 1..Len(c) |-> Bands[c[a]]]

\* the sum of the timeseries of the bands of a combination
ComboSum(c) ==
    LET first == Lookup(Bundle, Bands[c[1]])
    IN  [r \in 1..NRows(first) |-> [t \in 1..NCols(first) |->
            SumSeq([a \in 1..Len(c) |-> Lookup(Bundle, Bands[c[a]])[r][t]])]]

\* log2(norm(x) / norm(y)), node by node
NormRatio(x, y) ==
    [r \in 1..NRows(x) |-> LogRatio(NormSqAxis1(x)[r], NormSqAxis1(y)[r])]

\* every band over every other band
SingleEntries ==
    {[key |-> OverKey(Bands[q[1]], Bands[q[2]]),
      val |-> NormRatio(Lookup(Bundle, Bands[q[1]]), Lookup(Bundle, Bands[q[2]]))] :
        q \in {w \in (1..Len(Bands)) \X (1..Len(Bands)) : w[1] # w[2]}}

\* every band over every combination that does not contain it
ComboEntries ==
    {[key |-> OverKey(Bands[q[1]], CombKey(ComboNames(q[2]))),
      val |-> NormRatio(Lookup(Bundle, Bands[q[1]]), ComboSum(q[2]))] :
        q \in {w \in (1..Len(Bands)) \X BandCombinations :
                  \A a \in 1..Len(w[2]) : w[2][a] # w[1]}}

\* C16: for n >= 2 bands and keys=None gsdi returns exactly one entry
\* '{k}_over_{j}' for every band k and every j that is another band or a
\* combination of 2..n-1 bands without k, whatever the names of the bands,
\* with value log2(norm(k) / norm(j)); 9 entries for three bands.
C16_OneEntryPerBandAndRest ==
    GsdiReturned =>
        /\ {gsdi[1][n] : n \in 1..Len(gsdi[1])} = SingleEntries \cup ComboEntries
        /\ Len(gsdi[1]) = Cardinality(SingleEntries \cup ComboEntries)
        /\ Len(Bands) = 3 => Len(gsdi[1]) = 9

\* no name of a band is part of the name of another band or of "_and_"
SeparateNames ==
    \A a, b \in 1..Len(Bands) :
        /\ a # b => ~IsIn(Bands[a], Bands[b])
        /\ ~IsIn(Bands[a], <<"_", "a", "n", "d", "_">>)

(***************************************************************************)
(* Properties of compute_laplacian                                         *)
(***************************************************************************)
LaplCalled == pc = "compute_laplacian"
LaplReturned == LaplCalled /\ err = NoErr

\* C17: for every square matrix, every supported negval and every
\* supported selfloops setting, every row of the returned Laplacian sums
\* to zero: the returned degree of node i is the row sum of the adjacency
\* that is subtracted.
C17_RowsSumToZero ==
    LaplReturned =>
        \A i \in 1..Len(lapl_mtx[1].arr) :
            /\ XSum(lapl_mtx[1].arr[i]) = Fin(0)
            /\ history[1].degree[1][i].c = "fin"
            /\ history[1].degree[1][i] = XSum(history[1].adjacency[1].arr[i])

\* the entries of the adjacency are numbers
FiniteAdjacency ==
    \A i \in 1..Len(lapl_mtx[1].arr), j \in 1..Len(lapl_mtx[1].arr) :
        history[1].adjacency[1].arr[i][j].c = "fin"

\* C18: compute_laplacian raises NotImplementedError whenever negval is not
\* 'absolute', 'remove' or 'rescale', whatever the entries of the matrix,
\* and returns no Laplacian.
C18_UnknownNegvalRaises ==
    (LaplCalled /\ history[1].negval \notin {"absolute", "remove", "rescale"})
        => /\ err.exc = "NotImplementedError"
           /\ lapl_mtx = None

(***************************************************************************)
(* Properties of decomposition                                             *)
(***************************************************************************)
Decomposed == pc = "decomposition"

Reorderings(n) ==
    {q \in [1..n -> 1..n] : \A a, b \in 1..n : a # b => q[a] # q[b]}

Column(m, k) == [r \in 1..Len(m) |-> m[r][k]]

NonDecreasing(v) == \A k \in 1..(Len(v) - 1) : v[k] <= v[k + 1]

\* C19: decomposition returns the solver's eigenpairs reordered by a
\* single permutation: the returned eigenvalues are non-decreasing, and
\* column k of the returned eigenvectors is the solver's eigenvector that
\* was paired with the returned eigenvalue k.
C19_EigenpairsSortedTogether ==
    Decomposed =>
        LET ans == solver[1]
            eigenval == history[1].eigenval
            n == Len(ans.val)
        IN  /\ Len(eigenval) = n
            /\ NonDecreasing(eigenval)
            /\ \E q \in Reorderings(n) :
                  \A k \in 1..n :
                      /\ eigenval[k] = ans.val[q[k]]
                      /\ Column(eigenvec[1], k) = Column(ans.vec, q[k])

\* the solver's eigenvalues were out of order, with distinct eigenvectors:
\* the pairs had to move
C19_Witness ==
    /\ Decomposed
    /\ ~NonDecreasing(solver[1].val)
    /\ solver[1].vec = Counting(DecompN)
    /\ history[1].eigenval # solver[1].val

(***************************************************************************)
(* Properties of test_significance: the range of p                         *)
(***************************************************************************)
SigCalled == pc = "tested"

POutOfRange == p.num < 0 \/ p.num > p.den

PAtLimit == p.num = 0 \/ p.num = p.den

\* what stops the call whatever p is: data of another shape, an unknown
\* method, an ensemble without a second axis
StoppedWhateverP ==
    \/ ~DataShapeOk(surr, data)
    \/ method \notin {"frequentist", "Bernoulli"}
    \/ surr.ndim < 2

\* C21: test_significance raises ValueError for every p < 0 and every
\* p > 1, with either method; for p exactly 0 or exactly 1, and for every p
\* in between, it raises no error on account of p and returns a mask.
C21_PRangeChecked ==
    SigCalled =>
        /\ POutOfRange => (err.exc = "ValueError" /\ stat_mask = None)
        /\ (~POutOfRange /\ ~StoppedWhateverP)
               => (err = NoErr /\ stat_mask # None)

\* the same, p = 1 left out
C21_InsideRange ==
    (SigCalled /\ p # Frac(1, 1)) => C21_PRangeChecked

\* a call with p at a limit that returned a mask
C21_AtLimitReturned == SigCalled /\ PAtLimit /\ err = NoErr /\ stat_mask # None

(***************************************************************************)
(* Properties of graph_filter: the number of keys                          *)
(***************************************************************************)
Cutoffs == change_var_type_list(freq_idx[1])

\* the call returns when it is given one key per band
SplitsWithOwnKeys ==
    graph_filter(timeseries, eigenvec, freq_idx[1],
                 ExtendKeys(<<>>, Len(Cutoffs) + 1)).err = NoErr

FilterCalled == pc = "graph_filter"

\* the keys of the returned dictionaries: the first len(cutoffs) + 1 given
\* keys, then 'key-NNN' for the missing ones
ExpectedKeys ==
    [n \in 1..(Len(Cutoffs) + 1) |->
        IF n <= Len(keys[1]) THEN keys[1][n] ELSE GenKey(n - 1)]

\* C22: given a keys list whose length differs from len(cutoffs) + 1,
\* graph_filter does not fail: extra keys are dropped, missing keys are
\* generated as 'key-NNN', and both returned dictionaries have exactly
\* len(cutoffs) + 1 entries.
C22_KeysAdjusted ==
    (/\ FilterCalled
     /\ SplitsWithOwnKeys
     /\ Len(keys[1]) # Len(Cutoffs) + 1)
        => /\ err = NoErr
           /\ DictKeys(evec_split[1]) = ExpectedKeys
           /\ DictKeys(ts_split[1]) = ExpectedKeys

\* the same for too many keys only
C22_ExtraKeysDropped ==
    (FilterCalled /\ Len(keys[1]) > Len(Cutoffs) + 1) => C22_KeysAdjusted

\* too few keys: the call ends with IndexError
C22_MissingKeysRaise ==
    (/\ FilterCalled
     /\ SplitsWithOwnKeys
     /\ Len(keys[1]) < Len(Cutoffs) + 1)
        => err = [exc |-> "IndexError", at |-> "keys"]

(***************************************************************************)
(* Properties of test_significance: ensembles of fewer than 3 dimensions   *)
(***************************************************************************)
\* method 'Bernoulli' was called on an ensemble of fewer than 3 dimensions
\* with data of the right shape and p in range
BernoulliLowDim ==
    /\ SigCalled
    /\ method = "Bernoulli"
    /\ DataShapeOk(surr, data)
    /\ ~POutOfRange
    /\ Tested.ndim < 3

\* C23: when the ensemble has fewer than 3 dimensions (2-D regions x
\* surrogates, or 1-D surrogates of one observation), method 'Bernoulli'
\* raises no error: the group-level step is skipped and the frequentist
\* mask is returned as it is.
C23_LowDimSkipsGroupStep ==
    BernoulliLowDim =>
        /\ err = NoErr
        /\ thr = None
        /\ stat_mask # None
        /\ stat_mask = hits

\* the same for 2-D ensembles only
C23_TwoDimSkipsGroupStep ==
    (BernoulliLowDim /\ Tested.ndim = 2) => C23_LowDimSkipsGroupStep

\* a 1-D ensemble has no second axis
C23_OneDimRaises ==
    (BernoulliLowDim /\ Tested.ndim = 1) => err.exc = "IndexError"

(***************************************************************************)
(* Properties of test_significance: the empirical data                     *)
(***************************************************************************)
\* what the call gave back
SigOutcome ==
    [err |-> err, real_pos |-> real_pos, hits |-> hits, thr |-> thr,
     stat_mask |-> stat_mask]

\* the outcome of the call on the ensemble e with data=None, the argsort
\* resolving ties as it did
OutcomeWithoutData(e) ==
    test_significance(e, None, method, p, p_bernoulli,
                      IF real_pos = None THEN None ELSE real_pos[1])

\* surr.shape without its last axis
ObservationShape == SubSeq(ShapeOf(surr), 1, surr.ndim - 1)

\* data is the last slice of the ensemble, entry by entry
DataIsLastSlice ==
    /\ data # None
    /\ ShapeOf(data[1]) = ObservationShape
    /\ data[1].arr = LastSlice(surr)

\* C24: the empirical data is appended as a new last slice only when it is
\* not already the last slice: if data equals surr[..., -1] the ensemble
\* keeps its size and the result is that of the call with data=None; if
\* surr.shape without its last axis differs from data.shape the call raises
\* ValueError before any test is run.
C24_DataAppendedOnce ==
    (SigCalled /\ data # None) =>
        /\ DataIsLastSlice => SigOutcome = OutcomeWithoutData(surr)
        /\ (ShapeOf(data[1]) = ObservationShape /\ ~DataIsLastSlice)
               => SigOutcome
                      = OutcomeWithoutData(AppendLast(surr, data[1].arr))
        /\ ShapeOf(data[1]) # ObservationShape
               => /\ err.exc = "ValueError"
                  /\ real_pos = None
                  /\ stat_mask = None

\* the same for data that has as many axes as an observation
C24_ObservationShapedData ==
    (SigCalled /\ data # None /\ data[1].ndim = surr.ndim - 1)
        => C24_DataAppendedOnce

(***************************************************************************)
(* Properties of normalisation, symmetric_normalised_laplacian and         *)
(* recomposition                                                           *)
(***************************************************************************)
NormCalled == pc = "normalised"

\* the degree, normalisation factor or eigenvalue argument of the call
GivenDiag == history[1].d[1]

\* a 2-D argument with a non-zero entry off its diagonal
OffDiagonal ==
    /\ history[1].d # None
    /\ GivenDiag.ndim = 2
    /\ \E i \in 1..Len(GivenDiag.arr), j \in 1..Len(GivenDiag.arr) :
          i # j /\ GivenDiag.arr[i][j] # 0

\* the degree has not one element per node of the Laplacian
ShapeMismatch ==
    /\ history[1].d # None
    /\ Len(GivenDiag.arr) # Len(mtx[1])

\* C25: normalisation raises ValueError whenever the degree is a 2-D matrix
\* with a non-zero off-diagonal entry, and whenever the degree's shape does
\* not match the Laplacian; the same diagonality check rejects every
\* non-diagonal normalisation matrix given to
\* symmetric_normalised_laplacian and every non-diagonal 2-D eigenvalue
\* matrix given to recomposition.
C25_NonDiagonalRejected ==
    NormCalled =>
        /\ (history[1].fn = "normalisation" /\ (OffDiagonal \/ ShapeMismatch))
               => (err.exc = "ValueError" /\ lapl_mtx = None)
        /\ (history[1].fn # "normalisation" /\ OffDiagonal)
               => (err.exc = "ValueError" /\ lapl_mtx = None)

\* the off-diagonal entries of every row do not add up to zero
RowsDoNotCancel ==
    \A i \in 1..Len(GivenDiag.arr) :
        (\E j \in 1..Len(GivenDiag.arr) : i # j /\ GivenDiag.arr[i][j] # 0)
            => SumSeq(GivenDiag.arr[i]) # GivenDiag.arr[i][i]

\* the same for matrices of which no row cancels
C25_NonCancellingRejected ==
    (NormCalled /\ (OffDiagonal => RowsDoNotCancel))
        => C25_NonDiagonalRejected

(***************************************************************************)
(* Properties of symmetric_normalised_laplacian: zero degrees              *)
(***************************************************************************)
\* SCGraph.symmetric_normalised_laplacian: no d, fix_zeros at its default
StructuralCall ==
    /\ NormCalled
    /\ history[1].fn = "symmetric_normalised_laplacian"
    /\ history[1].d = None
    /\ history[1].fix_zeros

FiniteEntries(x) ==
    \A i \in 1..Len(x), j \in 1..Len(x) : x[i][j].c = "fin"

\* the degrees the inverse square root was taken of
RootedDegrees(x) ==
    {x[i][j].l : i \in 1..Len(x), j \in 1..Len(x)}
    \cup {x[i][j].r : i \in 1..Len(x), j \in 1..Len(x)}

NodeDegree(i) == SumSeq(mtx[1][i])

\* C26: for every square real connectivity matrix, zero-degree nodes and
\* negative entries included, symmetric_normalised_laplacian with
\* fix_zeros on never takes the inverse square root of a non-positive
\* degree: every zero degree is replaced by 1 and the Laplacian contains no
\* NaN or Inf entry.
C26_NoNaNNoInf ==
    StructuralCall =>
        /\ err = NoErr
        /\ FiniteEntries(lapl_mtx[1])
        /\ \A deg \in RootedDegrees(lapl_mtx[1]) : deg > 0
        /\ \A i \in 1..Len(mtx[1]) :
              NodeDegree(i) = 0 => lapl_mtx[1][i][i].l = 1

\* no node has a negative degree
NoNegativeDegree == \A i \in 1..Len(mtx[1]) : NodeDegree(i) >= 0

\* the same for matrices whose degrees are not negative
C26_NoNaNNoInfNonNegative ==
    (StructuralCall /\ NoNegativeDegree) => C26_NoNaNNoInf

(***************************************************************************)
(* SCGraph.split_graph called again and again on one object, whose index   *)
(* field starts with any value the constructor accepts                     *)
(***************************************************************************)
IdxInputs == {MedianIdx, NoIdx, OtherIdx} \cup {IntIdx(f) : f \in 0..MaxCut}

SplitKeyInputs == {<<"low", "high">>, <<"alpha", "beta">>}

\* every node with the same rising signal, and the first two nodes alone
\* with it
SplitTsInputs(n) ==
    {[r \in 1..n |-> RampRow(MinT)],
     [r \in 1..n |-> IF r <= 2 THEN RampRow(MinT) ELSE ZeroRow(MinT)]}

InitSplit ==
    /\ pc = "constructed"
    /\ eigenvec \in {Identity(MaxN), Counting(MaxN)}
    /\ timeseries \in SplitTsInputs(MaxN)
    /\ energy \in {None, Some([ndim |-> 2,
                               arr |-> graph_fourier_energy(timeseries,
                                                            eigenvec)])}
    /\ index \in IdxInputs
    /\ split_arg = None
    /\ freq_idx = None
    /\ keys = None
    /\ evec_split = None
    /\ ts_split = None
    /\ sdi_keys = None
    /\ sdi = None
    /\ SigIdle
    /\ SignIdle
    /\ sc_fn = None
    /\ lapl_mtx = None
    /\ solver = None
    /\ history = <<>>
    /\ self = None
    /\ mtx = None
    /\ gsdi = None
    /\ err = NoErr

\* SCGraph.split_graph(index, keys); history keeps the fields as they were
\* when the call was made
SplitGraphAgain ==
    /\ pc \in {"constructed", "split"}
    /\ \E arg \in IdxInputs, ks \in SplitKeyInputs :
          LET r == SplitGraphStored(timeseries, eigenvec, energy, index, arg,
                                    ks)
          IN  /\ split_arg' = Some(arg)
              /\ keys' = Some(ks)
              /\ err' = r.err
              /\ history' = <<[index |-> index, evec_split |-> evec_split,
                               ts_split |-> ts_split]>>
              /\ IF r.err = NoErr
                 THEN /\ evec_split' = r.evec_split
                      /\ ts_split' = r.ts_split
                      /\ index' = IntIdx(r.idx[1])
                 ELSE UNCHANGED <<evec_split, ts_split, index>>
    /\ pc' = "split"
    /\ UNCHANGED <<eigenvec, timeseries, energy, freq_idx, sdi_keys, sdi>>
    /\ UNCHANGED <<sigVars, signVars, sc_fn, lapl_mtx, solver, self, mtx,
                   gsdi>>

NextSplit == SplitGraphAgain

SpecSplit == InitSplit /\ [][NextSplit]_vars

(***************************************************************************)
(* Properties of SCGraph.split_graph: which index is used                  *)
(***************************************************************************)
SplitCalled == pc = "split"

\* the index the call has to work with
IndexToUse ==
    IF split_arg[1].kind = "none" THEN history[1].index ELSE split_arg[1]

\* the integer cutoff the call has to use, when there is one
CutoffToUse ==
    IF IndexToUse.kind = "int" THEN Some(IndexToUse.n)
    ELSE IF IndexToUse.kind = "median" /\ energy # None
    THEN median_cutoff_frequency_idx(energy[1]).idx
    ELSE None

FilterOfCutoff ==
    graph_filter(timeseries, eigenvec, IntArg(CutoffToUse[1]), keys[1])

\* C27: split_graph uses the argument when given and self.index otherwise,
\* resolves 'median' through median_cutoff_frequency_idx(self.energy),
\* raises ValueError for any other non-integer index, and after a
\* successful call self.index is the integer cutoff used and evec_split,
\* ts_split are graph_filter(timeseries, eigenvec, cutoff, keys)
C27_IndexResolved ==
    SplitCalled =>
        /\ IndexToUse.kind \in {"none", "other"} =>
              err = [exc |-> "ValueError", at |-> "index type"]
        /\ err = NoErr =>
              /\ CutoffToUse # None
              /\ index = IntIdx(CutoffToUse[1])
              /\ LET filtered == FilterOfCutoff
                 IN  /\ filtered.err = NoErr
                     /\ evec_split = filtered.evec_split
                     /\ ts_split = filtered.ts_split
        /\ err # NoErr => (CutoffToUse = None \/ FilterOfCutoff.err # NoErr)

\* a call without argument succeeded on the stored 'median', and the stored
\* index became the integer that the median gave
C27_Witness ==
    /\ SplitCalled
    /\ split_arg[1] = NoIdx
    /\ history[1].index = MedianIdx
    /\ err = NoErr
    /\ index.kind = "int"
    /\ ts_split # None
    /\ \E i \in 1..Len(energy[1].arr) : energy[1].arr[i][1] > 0

\* a call with an argument that differs from the stored integer succeeded
C27_WitnessArgument ==
    /\ SplitCalled
    /\ split_arg[1].kind = "int"
    /\ history[1].index.kind = "int"
    /\ history[1].index # split_arg[1]
    /\ err = NoErr
    /\ index = split_arg[1]

(***************************************************************************)
(* graph_fourier_transform as a function of the shape of its timeseries    *)
(***************************************************************************)
MaxAxis == 3

ShapeInputs == UNION {[1..d -> 1..MaxAxis] : d \in 1..4}

InitShape ==
    /\ pc = "arguments"
    /\ timeseries \in {[shape |-> sh] : sh \in ShapeInputs}
    /\ eigenvec \in {[shape |-> <<n, n>>] : n \in 1..MaxAxis}
    /\ history = <<>>
    /\ energy = None
    /\ index = None
    /\ split_arg = None
    /\ freq_idx = None
    /\ keys = None
    /\ evec_split = None
    /\ ts_split = None
    /\ sdi_keys = None
    /\ sdi = None
    /\ SigIdle
    /\ SignIdle
    /\ sc_fn = None
    /\ lapl_mtx = None
    /\ solver = None
    /\ self = None
    /\ mtx = None
    /\ gsdi = None
    /\ err = NoErr

\* operations.graph_fourier_transform(timeseries, eigenvec)
GraphFourierTransformCall ==
    /\ pc = "arguments"
    /\ LET r == graph_fourier_transform_shape(timeseries.shape,
                                              eigenvec.shape[1])
       IN  /\ err' = r.err
           /\ history' = <<[fn |-> "graph_fourier_transform",
                            shape |-> r.shape]>>
    /\ pc' = "transformed"
    /\ UNCHANGED <<eigenvec, timeseries, energy, index, split_arg, freq_idx,
                   keys, evec_split, ts_split, sdi_keys, sdi>>
    /\ UNCHANGED <<sigVars, signVars, sc_fn, lapl_mtx, solver, self, mtx,
                   gsdi>>

NextShape == GraphFourierTransformCall

SpecShape == InitShape /\ [][NextShape]_vars

(***************************************************************************)
(* Properties of graph_fourier_transform: the shape of the result          *)
(***************************************************************************)
GftCalled == pc = "transformed"

\* the timeseries has one row per eigenvector
RowsMatch == timeseries.shape[1] = eigenvec.shape[1]

HasUnitAxis == \E a \in 1..Len(timeseries.shape) : timeseries.shape[a] = 1

\* C28: with energy=False and mean=False the result of
\* graph_fourier_transform has the shape of the timeseries, for 1 to 4
\* dimensions, axes of length 1 included
C28_ShapePreserved ==
    (GftCalled /\ RowsMatch) =>
        /\ err = NoErr
        /\ history[1].shape = Some(timeseries.shape)

\* C28 for timeseries without an axis of length 1
C28_ShapePreservedNoUnitAxis ==
    (GftCalled /\ RowsMatch /\ ~HasUnitAxis) =>
        /\ err = NoErr
        /\ history[1].shape = Some(timeseries.shape)

\* C28: a 4-D timeseries without an axis of length 1 was transformed
C28_FourDimWitness ==
    /\ GftCalled
    /\ Len(timeseries.shape) = 4
    /\ ~HasUnitAxis
    /\ err = NoErr

\* C28: an axis of length 1 is lost: the result has fewer dimensions
C28_UnitAxisDropped ==
    (GftCalled /\ RowsMatch /\ HasUnitAxis /\ err = NoErr) =>
        /\ history[1].shape = Some(SqueezedShape(timeseries.shape))
        /\ Len(history[1].shape[1]) < Len(timeseries.shape)

(***************************************************************************)
(* Properties of gsdi: the dictionary it is given                          *)
(***************************************************************************)
GsdiCalledOnce == pc = "gsdi"
GsdiCalledTwice == pc = "gsdi again"

\* ts_split is what it was before the first call, and a second call gave
\* what the first call gave
SameBundleSameResult ==
    /\ ts_split = Some(history[1].ts_split)
    /\ GsdiCalledTwice => gsdi = history[2].earlier

\* C29: gsdi does not modify ts_split, whatever the number of bands: after
\* compute_gsdi ts_split has the keys and values it had, and a second
\* compute_gsdi returns the same mapping as the first
C29_TsSplitUntouched ==
    (GsdiCalledOnce \/ GsdiCalledTwice) => SameBundleSameResult

\* C29 for two bands
C29_TwoBandsUntouched ==
    ((GsdiCalledOnce \/ GsdiCalledTwice) /\ Len(history[1].ts_split) = 2)
        => SameBundleSameResult

\* C29: two calls were made on two bands
C29_TwoBandsWitness ==
    /\ GsdiCalledTwice
    /\ Len(history[1].ts_split) = 2
    /\ gsdi # None

\* C29: with three or more bands the call adds the combinations of bands to
\* ts_split
C29_MoreBandsGrow ==
    (GsdiCalledOnce /\ Len(history[1].ts_split) > 2)
        => /\ Len(ts_split[1]) > Len(history[1].ts_split)
           /\ \A i \in 1..Len(history[1].ts_split) :
                 ts_split[1][i] = history[1].ts_split[i]

(***************************************************************************)
(* Properties of the SCGraph methods: a method that raises                 *)
(***************************************************************************)
\* the step is a call of one of the methods, and it raised
RaisedIn(methods) == pc' \in methods /\ err' # NoErr

\* C30: when split_graph, create_surrogates or test_significance raises,
\* every field of the object (index, evec_split, ts_split, surr,
\* surr_split, sdi, gsdi) is what it was before the call
C30_RaisingLeavesFields ==
    [][RaisedIn({"split_graph", "create_surrogates", "test_significance"})
          => self' = self]_vars

\* C30 for split_graph and create_surrogates
C30_SplitAndSurrogatesLeaveFields ==
    [][RaisedIn({"split_graph", "create_surrogates"}) => self' = self]_vars

\* C30 for test_significance: when it raises, the fields other than
\* surr_split and sdi are what they were
C30_TestSignificanceKeepsOthers ==
    [][RaisedIn({"test_significance"})
          => [self'[1] EXCEPT !.surr_split = None, !.sdi = None]
               = [self[1] EXCEPT !.surr_split = None, !.sdi = None]]_vars

\* C30: test_significance raised on the gsdi after it had stored the split
\* surrogates and the tested sdi
C30_PartlyTested ==
    /\ pc = "test_significance"
    /\ err = [exc |-> "AttributeError", at |-> "surr.shape"]
    /\ self[1].surr_split = Dict
    /\ self[1].sdi = TestedArray

\* C30: split_graph raised on an object that had been split before
C30_SplitRaisedWitness ==
    /\ pc = "split_graph"
    /\ err # NoErr
    /\ self[1].ts_split = Dict

====
